---- MODULE Spec2Model ----
(***************************************************************************)
(* A model of ai-review-hook: the per-file review pipeline of              *)
(* AIReviewer.review_file (src/src/ai_review_hook/reviewer.py), the        *)
(* redactor of utils.py and the orchestration of main()                    *)
(* (src/src/ai_review_hook/main.py).                                       *)
(*                                                                         *)
(* Texts are sequences of tokens.  A token stands for a run of characters  *)
(* that the code treats as a unit:                                         *)
(*   diff / file-content tokens                                            *)
(*     "n"  a newline                "w"  a blank (space or tab)            *)
(*     "x"  ordinary text            "u"  one multi-byte character          *)
(*     "@"  the hunk prefix "@@"     "+" "-"  added / removed line prefix   *)
(*     "d"  a header prefix "diff " or "index "                            *)
(*     "h"  a header prefix "---" or "+++"                                 *)
(*     "S"  a one-line secret (an AWS key id, a GitHub token, ...)         *)
(*     "c"  one unit of a secret that was cut in the middle                *)
(*     "s"  a short secret (a Slack token of a few characters)             *)
(*     "K"  a BEGIN ... PRIVATE KEY line, "E" the matching END line        *)
(*     "R"  the literal [REDACTED]                                         *)
(*     "a"  the literal AI-REVIEW:[    "k"  the literal ```json             *)
(*     "M"  the truncation marker, "T" the too-large placeholder,          *)
(*     "U"  the unable-to-decode placeholder, "N" the hunk notice          *)
(*     "B"  the binary-file sentinel, "Q" the unreadable-file sentinel     *)
(*   response tokens                                                       *)
(*     "P"  AI-REVIEW:[PASS]   "p"  the same marker in another case        *)
(*     "F"  AI-REVIEW:[FAIL]   "f"  the same marker in another case        *)
(*     "w"  whitespace         "x"  any other text                         *)
(*     "J"  a fenced json block holding {"findings": [...]}                *)
(*     "j"  a fenced json block that is malformed or of another shape      *)
(*     "V"  a fenced json block that json.loads rejects with an exception  *)
(*          other than JSONDecodeError (an integer literal of more than    *)
(*          4300 digits, nesting beyond the recursion limit)               *)
(*     "m"  the literal AI-REVIEW[MISSING]                                 *)
(*   review-log tokens (main)                                              *)
(*     "="  a rule of the entry header, "G" the literal Git Diff:          *)
(*     a file name stands for itself                                       *)
(***************************************************************************)
EXTENDS Integers, Sequences, FiniteSets, TLC

(***************************************************************************)
(* Bounds of the model.                                                    *)
(***************************************************************************)
\* longest response text given to _determine_pass_fail on its own
MaxTextLen == 3
\* longest response text the API returns to review_file
MaxRespLen == 2
\* largest max_retries the reviewer is configured with
MaxRetriesBound == 2
\* longest list of input files given to main
MaxFiles == 3

None == "None"
\* Python's None where a text or a list is expected
NoText == <<"None">>

(***************************************************************************)
(* Generic sequence helpers.                                               *)
(***************************************************************************)
RECURSIVE SeqsUpTo(_, _)
SeqsUpTo(S, n) ==
    IF n = 0 THEN {<<>>}
    ELSE LET shorter == SeqsUpTo(S, n - 1)
         IN  shorter \cup {Append(t, c) : t \in {q \in shorter : Len(q) = n - 1}, c \in S}

Range(s) == {s[i] : i \in 1..Len(s)}

RECURSIVE Sum(_, _)
Sum(f, s) == IF s = <<>> THEN 0 ELSE f[Head(s)] + Sum(f, Tail(s))

RECURSIVE Flatten(_, _)
\* sep.join(parts) for a list of texts
Flatten(parts, sep) ==
    IF parts = <<>> THEN <<>>
    ELSE IF Len(parts) = 1 THEN parts[1]
    ELSE parts[1] \o sep \o Flatten(Tail(parts), sep)

RECURSIVE Split(_, _)
\* text.split(sep) for a one-token separator: always at least one part
Split(text, sep) ==
    IF \A i \in 1..Len(text) : text[i] # sep THEN <<text>>
    ELSE LET k == CHOOSE i \in 1..Len(text) :
                      text[i] = sep /\ \A j \in 1..(i - 1) : text[j] # sep
         IN  <<SubSeq(text, 1, k - 1)>> \o Split(SubSeq(text, k + 1, Len(text)), sep)

(***************************************************************************)
(* str.strip(), byte lengths.                                              *)
(***************************************************************************)
Whitespace == {"w", "n"}

RECURSIVE LStrip(_)
LStrip(text) ==
    IF text # <<>> /\ Head(text) \in Whitespace THEN LStrip(Tail(text)) ELSE text

RECURSIVE RStrip(_)
RStrip(text) ==
    IF text # <<>> /\ text[Len(text)] \in Whitespace
    THEN RStrip(SubSeq(text, 1, Len(text) - 1)) ELSE text

Strip(text) == RStrip(LStrip(text))

\* the UTF-8 length of one token, in units of the model
TokenBytes ==
    [t \in {"n", "w", "x", "c", "+", "-", "d", "s"} |-> 1] @@
    [t \in {"a", "k"} |-> 2] @@
    [t \in {"u", "@", "K", "E", "R", "T", "N", "B", "Q", "U"} |-> 2] @@
    [t \in {"h", "S", "M"} |-> 3]

DiffTokens == DOMAIN TokenBytes

\* len(text.encode("utf-8"))
ByteLen(text) == Sum(TokenBytes, text)

(***************************************************************************)
(* utils.redact: the SECRET_PATTERNS are substituted one after another.    *)
(***************************************************************************)
\* pattern.sub("[REDACTED]", text) for a pattern matching the one token tok
SubToken(text, tok) == [i \in 1..Len(text) |-> IF text[i] = tok THEN "R" ELSE text[i]]

RECURSIVE SubPrivateKey(_)
\* the BEGIN.*?END pattern (re.S, non-greedy): each BEGIN with the nearest END
SubPrivateKey(text) ==
    IF text = <<>> THEN <<>>
    ELSE IF Head(text) = "K" /\ \E i \in 2..Len(text) : text[i] = "E"
    THEN LET e == CHOOSE i \in 2..Len(text) :
                      text[i] = "E" /\ \A j \in 2..(i - 1) : text[j] # "E"
         IN  <<"R">> \o SubPrivateKey(SubSeq(text, e + 1, Len(text)))
    ELSE <<Head(text)>> \o SubPrivateKey(Tail(text))

RedactAll(text, skip_if_empty) == SubToken(SubPrivateKey(SubToken(text, "S")), "s")

\* mutant: the private-key pattern is left out of the pattern list
RedactWithoutPrivateKeys(text, skip_if_empty) ==
    IF skip_if_empty /\ Strip(text) = <<>> THEN text
    ELSE SubToken(SubToken(text, "S"), "s")

redact(text, skip_if_empty) ==
    IF skip_if_empty /\ Strip(text) = <<>> THEN text
    ELSE RedactAll(text, skip_if_empty)

\* a text in which some secret pattern still matches
HasSecret(text) ==
    \/ \E i \in 1..Len(text) : text[i] \in {"S", "s"}
    \/ \E i, j \in 1..Len(text) : i < j /\ text[i] = "K" /\ text[j] = "E"

\* a text holding part of a secret that no pattern matches any more
HasSecretFragment(text) ==
    \/ \E i \in 1..Len(text) : text[i] = "c"
    \/ \E i \in 1..Len(text) :
          text[i] = "K" /\ \A j \in (i + 1)..Len(text) : text[j] # "E"

(***************************************************************************)
(* AIReviewer.truncate_text_with_marker                                    *)
(***************************************************************************)
RECURSIVE TakeBytes(_, _)
\* text_bytes[:n] decoded: a multi-byte character cut in the middle is dropped
\* by the decode loop, a run of ASCII characters cut in the middle stays as a
\* fragment
TakeBytes(text, n) ==
    IF text = <<>> \/ n <= 0 THEN <<>>
    ELSE LET t == Head(text)
             b == TokenBytes[t]
         IN  IF b <= n THEN <<t>> \o TakeBytes(Tail(text), n - b)
             ELSE IF t = "u" THEN <<>>
             ELSE [i \in 1..n |-> IF t = "S" THEN "c" ELSE "x"]

\* a cut at max_bytes that reserves no room for the marker
truncate_text_NoReserve(text, max_bytes, marker) ==
    IF max_bytes <= 0 THEN text
    ELSE IF ByteLen(text) <= max_bytes THEN text
    ELSE IF max_bytes <= TokenBytes["M"] THEN <<"T">>
    ELSE LET truncated_text == TakeBytes(text, max_bytes)
         IN  (IF truncated_text = <<>> THEN <<"U">> ELSE truncated_text) \o <<"M">>

truncate_text_with_marker(text, max_bytes, marker) ==
    IF max_bytes <= 0 THEN text
    ELSE IF ByteLen(text) <= max_bytes THEN text
    ELSE LET marker_bytes == TokenBytes["M"]
         IN  IF max_bytes <= marker_bytes THEN <<"T">>
             ELSE LET truncated_text == TakeBytes(text, max_bytes - marker_bytes)
                  IN  (IF truncated_text = <<>> THEN <<"U">> ELSE truncated_text)
                          \o <<"M">>

(***************************************************************************)
(* AIReviewer.extract_changed_hunks                                        *)
(***************************************************************************)
DefaultMaxHunks == 10

StartsWithAny(line, toks) == line # <<>> /\ line[1] \in toks

\* one iteration of the loop over the lines
HunkStep(st, line, max_hunks) ==
    IF StartsWithAny(line, {"@"}) /\ st.current_hunk # <<>>
    THEN [hunks |-> IF st.hunk_count < max_hunks
                    THEN Append(st.hunks, Flatten(st.current_hunk, <<"n">>))
                    ELSE st.hunks,
          hunk_count |-> IF st.hunk_count < max_hunks
                         THEN st.hunk_count + 1 ELSE st.hunk_count,
          current_hunk |-> <<line>>]
    ELSE IF StartsWithAny(line, {"@"})
    THEN [st EXCEPT !.current_hunk = <<line>>]
    ELSE IF st.current_hunk # <<>> /\ StartsWithAny(line, {"+", "-", "w", "h"})
    THEN [st EXCEPT !.current_hunk = Append(st.current_hunk, line)]
    ELSE IF StartsWithAny(line, {"d", "h"})
    THEN IF st.current_hunk = <<>>
         THEN [st EXCEPT !.hunks = Append(st.hunks, line)]
         ELSE st
    ELSE st

RECURSIVE HunkLoop(_, _, _)
HunkLoop(st, lines, max_hunks) ==
    IF lines = <<>> THEN st
    ELSE HunkLoop(HunkStep(st, Head(lines), max_hunks), Tail(lines), max_hunks)

RECURSIVE CountLines(_)
\* sum(len(hunk.split("\n")) for hunk in hunks)
CountLines(hunks) ==
    IF hunks = <<>> THEN 0
    ELSE Len(Split(Head(hunks), "n")) + CountLines(Tail(hunks))

\* an extraction that never reports what it left out
extract_changed_hunks_NoNotice(diff, max_hunks) ==
    IF Strip(diff) = <<>> THEN diff
    ELSE LET lines == Split(diff, "n")
             st    == HunkLoop([hunks |-> <<>>, hunk_count |-> 0, current_hunk |-> <<>>],
                               lines, max_hunks)
             last  == st.current_hunk # <<>> /\ st.hunk_count < max_hunks
             hunks == IF last THEN Append(st.hunks, Flatten(st.current_hunk, <<"n">>))
                      ELSE st.hunks
         IN  Flatten(hunks, <<"n">>)

extract_changed_hunks(diff, max_hunks) ==
    IF Strip(diff) = <<>> THEN diff
    ELSE LET lines == Split(diff, "n")
             st    == HunkLoop([hunks |-> <<>>, hunk_count |-> 0, current_hunk |-> <<>>],
                               lines, max_hunks)
             last  == st.current_hunk # <<>> /\ st.hunk_count < max_hunks
             hunks == IF last THEN Append(st.hunks, Flatten(st.current_hunk, <<"n">>))
                      ELSE st.hunks
             hunk_count == IF last THEN st.hunk_count + 1 ELSE st.hunk_count
             result == Flatten(hunks, <<"n">>)
         IN  IF hunk_count >= max_hunks /\ Len(lines) > CountLines(hunks)
             THEN result \o <<"N">>
             ELSE result

(***************************************************************************)
(* The response parser: AIReviewer._determine_pass_fail and                *)
(* AIReviewer._parse_review_text                                           *)
(***************************************************************************)
\* mutant: the markers are matched without re.IGNORECASE
IsMarkerCaseSensitive(tok, word, ignorecase) ==
    \/ word = "PASS" /\ tok = "P"
    \/ word = "FAIL" /\ tok = "F"

\* whether tok is the marker AI-REVIEW:[word] under re.IGNORECASE or not
IsMarker(tok, word, ignorecase) ==
    \/ word = "PASS" /\ (tok = "P" \/ (ignorecase /\ tok = "p"))
    \/ word = "FAIL" /\ (tok = "F" \/ (ignorecase /\ tok = "f"))

\* re.search(r"AI-REVIEW:\[word\]", text, re.IGNORECASE)
SearchMarker(text, word) == \E i \in 1..Len(text) : IsMarker(text[i], word, TRUE)

\* re.match(r"^AI-REVIEW:\[(PASS|FAIL)\]", text, re.IGNORECASE): the group, or None
MatchAnchor(text) ==
    IF text # <<>> /\ IsMarker(text[1], "PASS", TRUE) THEN "PASS"
    ELSE IF text # <<>> /\ IsMarker(text[1], "FAIL", TRUE) THEN "FAIL"
    ELSE None

\* mutant: a response without any marker passes
DeterminePassFail_FailOpen(review_text) ==
    LET match == MatchAnchor(Strip(review_text))
    IN  IF match # None THEN match = "PASS"
        ELSE IF SearchMarker(review_text, "FAIL") THEN FALSE
        ELSE TRUE

\* mutant: the fallback looks for PASS before it looks for FAIL
DeterminePassFail_PassFirst(review_text) ==
    LET match == MatchAnchor(Strip(review_text))
    IN  IF match # None THEN match = "PASS"
        ELSE IF SearchMarker(review_text, "PASS") THEN TRUE
        ELSE FALSE

_determine_pass_fail(review_text) ==
    LET match == MatchAnchor(Strip(review_text))
    IN  IF match # None THEN match = "PASS"
        ELSE IF SearchMarker(review_text, "FAIL") THEN FALSE
        ELSE IF SearchMarker(review_text, "PASS") THEN TRUE
        ELSE FALSE

\* the findings list a well-formed json block holds
BlockFindings == <<"finding">>

RECURSIVE Remove(_, _)
\* text.replace(tok, "")
Remove(text, tok) ==
    IF text = <<>> THEN <<>>
    ELSE IF Head(text) = tok THEN Remove(Tail(text), tok)
    ELSE <<Head(text)>> \o Remove(Tail(text), tok)

ParseResult(exc, human_text, findings) ==
    [raised |-> exc, human_text |-> human_text, findings |-> findings]

\* lines 429-452; only json.JSONDecodeError is caught (line 447)
_parse_review_text(text) ==
    LET fences == {i \in 1..Len(text) : text[i] \in {"J", "j", "V"}}
    IN  IF fences = {} THEN ParseResult(None, text, NoText)
        ELSE LET first == CHOOSE i \in fences : \A k \in fences : i <= k
             IN  IF text[first] = "J"
                 THEN ParseResult(None, Strip(Remove(text, "J")), BlockFindings)
                 ELSE IF text[first] = "V"
                 THEN ParseResult("ValueError", text, NoText)
                 ELSE ParseResult(None, text, NoText)

(***************************************************************************)
(* Errors of the API client and AIReviewer._is_retryable_error             *)
(***************************************************************************)
Err(cls, has_status, code) == [cls |-> cls, has_status |-> has_status, status_code |-> code]

NoError == Err(None, FALSE, 0)

\* the base class of each exception class (the hierarchy of the openai package)
BaseClass ==
    [c \in {"RateLimitError", "InternalServerError", "UnprocessableEntityError",
            "AuthenticationError"} |-> "APIStatusError"] @@
    [c \in {"APITimeoutError"} |-> "APIConnectionError"] @@
    [c \in {"APIConnectionError", "APIStatusError"} |-> "APIError"] @@
    [c \in {"APIError", "ValueError", "KeyError", "IndexError"} |-> "Exception"] @@
    [c \in {"Exception"} |-> None]

RECURSIVE IsSubclass(_, _)
IsSubclass(c, base) ==
    IF c = base THEN TRUE
    ELSE IF c = None THEN FALSE
    ELSE IsSubclass(BaseClass[c], base)

\* isinstance(error, cls)
IsInstance(error, cls) == IsSubclass(error.cls, cls)

RetryableCodes == {429, 502, 503, 504, 520, 521, 522, 523, 524}

\* a classification by exception type alone
_is_retryable_error_TypesOnly(error) ==
    \E c \in {"RateLimitError", "APITimeoutError", "APIConnectionError",
               "InternalServerError", "UnprocessableEntityError"} :
        IsInstance(error, c)

_is_retryable_error(error) ==
    IF IsInstance(error, "RateLimitError") THEN TRUE
    ELSE IF IsInstance(error, "APITimeoutError") THEN TRUE
    ELSE IF IsInstance(error, "APIConnectionError") THEN TRUE
    ELSE IF IsInstance(error, "InternalServerError") THEN TRUE
    ELSE IF IsInstance(error, "UnprocessableEntityError") THEN TRUE
    ELSE IF error.has_status THEN error.status_code \in RetryableCodes
    ELSE FALSE

(***************************************************************************)
(* AIReviewer.create_review_prompt.  A prompt is kept as the parts the     *)
(* template is filled with; a custom template is described by the          *)
(* placeholders and instructions it holds.                                 *)
(***************************************************************************)
\* content.startswith("[")
StartsWithBracket(text) == text # <<>> /\ text[1] \in {"B", "Q", "T", "U", "R"}

Contains(text, tok) == \E i \in 1..Len(text) : text[i] = tok

\* the value substituted for {content}, and the test for the content section
ContentShown(content, diff_only) ==
    IF ~diff_only /\ content # <<>> /\ ~StartsWithBracket(content) THEN content ELSE <<>>

create_review_prompt(custom_prompt, diff, content, diff_only) ==
    IF custom_prompt.present
    THEN IF ~custom_prompt.well_formed THEN [raised |-> "KeyError"]
         ELSE LET d == IF custom_prompt.uses_diff THEN diff ELSE <<>>
                  c == IF custom_prompt.uses_content
                       THEN ContentShown(content, diff_only) ELSE <<>>
              IN  [raised |-> None,
                   template |-> "custom",
                   diff |-> d,
                   content |-> c,
                   diff_only_note |-> diff_only /\ custom_prompt.uses_note,
                   verdict_instruction_prepended |->
                       ~(custom_prompt.has_verdict_instruction
                         \/ Contains(d, "a") \/ Contains(c, "a")),
                   findings_instruction_appended |->
                       ~(custom_prompt.has_json_instruction
                         \/ Contains(d, "k") \/ Contains(c, "k"))]
    ELSE [raised |-> None,
          template |-> "default",
          diff |-> diff,
          content |-> ContentShown(content, diff_only),
          diff_only_note |-> diff_only,
          verdict_instruction_prepended |-> FALSE,
          findings_instruction_appended |-> FALSE]

(***************************************************************************)
(* State.                                                                  *)
(***************************************************************************)
VARIABLES
    \* --- one call of _determine_pass_fail on its own
    fn_input,           \* the review text it is given
    fn_called,          \* whether the call was made
    fn_output,          \* its result
    \* --- one call of AIReviewer.review_file (reviewer.py)
    rpc,                \* the position in review_file
    arg_diff,           \* the diff argument as passed by the caller
    max_diff_bytes,
    max_content_bytes,
    diff_only,
    max_retries,        \* self.max_retries
    custom_prompt,      \* what select_prompt_template gives for the file
    file_state,         \* the file on disk: binary, unreadable, or a text
    diff,               \* the local variable diff
    content,            \* the local variable content
    redacted_diff,
    redacted_content,
    prompt,
    attempt,            \* the loop variable of _make_api_call_with_retry
    last_error,
    review_text,        \* what _make_api_call_with_retry returned, NoText before
    raised,             \* the exception _make_api_call_with_retry or review_file raised
    ret,                \* the tuple review_file returned, NoResult before
    events,             \* history: the API calls and sleeps, in order
    stages,             \* history: the pipeline operations applied, in order
    \* --- the environment of that call
    reply_pool          \* the texts the chat-completion API may answer with

pure_vars == <<fn_input, fn_called, fn_output>>

review_vars == <<rpc, arg_diff, max_diff_bytes, max_content_bytes, diff_only,
                 max_retries, custom_prompt, file_state, diff, content,
                 redacted_diff, redacted_content, prompt, attempt, last_error,
                 review_text, raised, ret, events, stages, reply_pool>>

\* the state of one run of main (src/src/ai_review_hook/main.py)
VARIABLES mpc, api_key_set, prompts_file, include_patterns, exclude_patterns, argv_files,
          args_files, jobs,
          verbose, output_file, init_fails, disk_fails, tasks, results,
          failed_files, all_reviews, fetched, written, exit_code,
          filetype_prompts, outcomes

main_vars == <<mpc, api_key_set, prompts_file, include_patterns, exclude_patterns, argv_files,
               args_files, jobs,
               verbose, output_file, init_fails, disk_fails, tasks, results,
               failed_files, all_reviews, fetched, written, exit_code,
               filetype_prompts, outcomes>>

vars == <<pure_vars, review_vars, main_vars>>

(***************************************************************************)
(* _determine_pass_fail called on its own, on every short response text.   *)
(***************************************************************************)
ResponseTokens == {"P", "p", "F", "f", "w", "x"}

PureIdle == fn_input = <<>> /\ fn_called = FALSE /\ fn_output = FALSE

Call_determine_pass_fail ==
    /\ ~fn_called
    /\ fn_called' = TRUE
    /\ fn_output' = _determine_pass_fail(fn_input)
    /\ UNCHANGED <<fn_input, review_vars, main_vars>>

(***************************************************************************)
(* AIReviewer.get_file_content                                             *)
(***************************************************************************)
File(kind, text) == [kind |-> kind, text |-> text]

get_file_content(file) ==
    IF file.kind = "binary" THEN <<"B">>
    ELSE IF file.kind = "unreadable" THEN <<"Q">>
    ELSE file.text

(***************************************************************************)
(* AIReviewer.review_file, step by step.                                   *)
(***************************************************************************)
\* a custom template: the placeholders and instructions it holds, and whether
\* str.format accepts it
Template(uses_diff, uses_content, uses_note, verdict, json, well_formed) ==
    [present |-> TRUE, uses_diff |-> uses_diff, uses_content |-> uses_content,
     uses_note |-> uses_note, has_verdict_instruction |-> verdict,
     has_json_instruction |-> json, well_formed |-> well_formed]

\* select_prompt_template found nothing
NoTemplate ==
    [present |-> FALSE, uses_diff |-> FALSE, uses_content |-> FALSE,
     uses_note |-> FALSE, has_verdict_instruction |-> FALSE,
     has_json_instruction |-> FALSE, well_formed |-> TRUE]

NoResult == [passed |-> FALSE, review |-> NoText, findings |-> NoText]

NoPrompt == [raised |-> None, template |-> None, diff |-> <<>>, content |-> <<>>,
             diff_only_note |-> FALSE, verdict_instruction_prepended |-> FALSE,
             findings_instruction_appended |-> FALSE]

Outcome(kind, text, error) == [kind |-> kind, text |-> text, error |-> error]

Event(ev, result) == [ev |-> ev, result |-> result]

Result(passed, review, findings) ==
    [passed |-> passed, review |-> review, findings |-> findings]

\* the fixed texts of the code
NoChangesText == <<"x">>
EmptyChoicesText == <<"F", "w", "x">>
EmptyContentText == <<"F", "w", "x", "x">>
BlankResponseText == <<"F", "w", "x", "x", "x">>
ApiErrorText == <<"F", "w", "x", "w", "x">>
UnexpectedErrorText == <<"F", "w", "x", "w", "x", "x">>

ReviewIdle ==
    /\ rpc = "idle"
    /\ arg_diff = <<>>
    /\ max_diff_bytes = 0
    /\ max_content_bytes = 0
    /\ diff_only = FALSE
    /\ max_retries = 0
    /\ custom_prompt = NoTemplate
    /\ file_state = File("text", <<>>)
    /\ diff = <<>>
    /\ content = <<>>
    /\ redacted_diff = <<>>
    /\ redacted_content = <<>>
    /\ prompt = NoPrompt
    /\ attempt = 0
    /\ last_error = NoError
    /\ review_text = NoText
    /\ raised = NoError
    /\ ret = NoResult
    /\ events = <<>>
    /\ stages = <<>>
    /\ reply_pool = {}

\* mutant: a blank diff goes through the pipeline like any other
EmptyDiffNotShortCircuited ==
    /\ rpc = "entry"
    /\ Strip(diff) = <<>>
    /\ rpc' = "content"
    /\ UNCHANGED <<pure_vars, main_vars, arg_diff, max_diff_bytes, max_content_bytes,
                   diff_only, max_retries, custom_prompt, file_state, diff, content,
                   redacted_diff, redacted_content, prompt, attempt, last_error,
                   review_text, raised, ret, events, stages, reply_pool>>

\* lines 493-494: nothing to review
EmptyDiffReturn ==
    /\ rpc = "entry"
    /\ Strip(diff) = <<>>
    /\ ret' = Result(TRUE, NoChangesText, <<>>)
    /\ rpc' = "returned"
    /\ UNCHANGED <<pure_vars, main_vars, arg_diff, max_diff_bytes, max_content_bytes, diff_only,
                   max_retries, custom_prompt, file_state, diff, content,
                   redacted_diff, redacted_content, prompt, attempt, last_error,
                   review_text, raised, events, stages, reply_pool>>

\* lines 496-507: the size limits of the diff
LimitDiffOps(d, budget) ==
    IF budget > 0 /\ ByteLen(d) > budget
    THEN IF ByteLen(extract_changed_hunks(d, DefaultMaxHunks)) > budget
         THEN <<"extract_changed_hunks", "truncate_diff">>
         ELSE <<"extract_changed_hunks">>
    ELSE <<>>

LimitDiff(d, budget) ==
    IF budget > 0 /\ ByteLen(d) > budget
    THEN LET hunks == extract_changed_hunks(d, DefaultMaxHunks)
         IN  IF ByteLen(hunks) > budget
             THEN truncate_text_with_marker(hunks, budget, "diff")
             ELSE hunks
    ELSE d

ApplyDiffLimits ==
    /\ rpc = "entry"
    /\ Strip(diff) # <<>>
    /\ diff' = LimitDiff(diff, max_diff_bytes)
    /\ stages' = stages \o LimitDiffOps(diff, max_diff_bytes)
    /\ rpc' = "content"
    /\ UNCHANGED <<pure_vars, main_vars, arg_diff, max_diff_bytes, max_content_bytes, diff_only,
                   max_retries, custom_prompt, file_state, content,
                   redacted_diff, redacted_content, prompt, attempt, last_error,
                   review_text, raised, ret, events, reply_pool>>

\* lines 509-520: the file content and its size limit
LimitContent(c, budget) ==
    IF budget > 0 /\ ByteLen(c) > budget
    THEN truncate_text_with_marker(c, budget, "file content")
    ELSE c

\* a step that reads the file whatever the mode is
ReadContent_AlwaysReads ==
    /\ rpc = "content"
    /\ LET c == get_file_content(file_state)
       IN  /\ content' = LimitContent(c, max_content_bytes)
           /\ stages' = stages \o <<"get_file_content">> \o
                  (IF max_content_bytes > 0 /\ ByteLen(c) > max_content_bytes
                   THEN <<"truncate_content">> ELSE <<>>)
    /\ rpc' = "redact"
    /\ UNCHANGED <<pure_vars, main_vars, arg_diff, max_diff_bytes, max_content_bytes, diff_only,
                   max_retries, custom_prompt, file_state, diff,
                   redacted_diff, redacted_content, prompt, attempt, last_error,
                   review_text, raised, ret, events, reply_pool>>

ReadContent ==
    /\ rpc = "content"
    /\ IF diff_only
       THEN /\ content' = <<>>
            /\ UNCHANGED stages
       ELSE LET c == get_file_content(file_state)
            IN  /\ content' = LimitContent(c, max_content_bytes)
                /\ stages' = stages \o <<"get_file_content">> \o
                       (IF max_content_bytes > 0 /\ ByteLen(c) > max_content_bytes
                        THEN <<"truncate_content">> ELSE <<>>)
    /\ rpc' = "redact"
    /\ UNCHANGED <<pure_vars, main_vars, arg_diff, max_diff_bytes, max_content_bytes, diff_only,
                   max_retries, custom_prompt, file_state, diff,
                   redacted_diff, redacted_content, prompt, attempt, last_error,
                   review_text, raised, ret, events, reply_pool>>

\* lines 522-524
Redact ==
    /\ rpc = "redact"
    /\ redacted_diff' = redact(diff, FALSE)
    /\ redacted_content' = redact(content, TRUE)
    /\ stages' = stages \o <<"redact_diff", "redact_content">>
    /\ rpc' = "prompt"
    /\ UNCHANGED <<pure_vars, main_vars, arg_diff, max_diff_bytes, max_content_bytes, diff_only,
                   max_retries, custom_prompt, file_state, diff, content,
                   prompt, attempt, last_error, review_text, raised, ret, events, reply_pool>>

\* lines 526-528: an exception of str.format leaves review_file
PromptFor(d, c) == create_review_prompt(custom_prompt, d, c, diff_only)

BuildPrompt ==
    /\ rpc = "prompt"
    /\ LET built == PromptFor(redacted_diff, redacted_content)
       IN  IF built.raised # None
           THEN /\ raised' = Err(built.raised, FALSE, 0)
                /\ rpc' = "raised"
                /\ UNCHANGED prompt
           ELSE /\ prompt' = built
                /\ rpc' = "api"
                /\ UNCHANGED raised
    /\ stages' = Append(stages, "create_review_prompt")
    /\ UNCHANGED <<pure_vars, main_vars, arg_diff, max_diff_bytes, max_content_bytes, diff_only,
                   max_retries, custom_prompt, file_state, diff, content,
                   redacted_diff, redacted_content, attempt, last_error,
                   review_text, ret, events, reply_pool>>

(***************************************************************************)
(* AIReviewer._make_api_call_with_retry, one loop iteration at a time.     *)
(***************************************************************************)
\* the errors the client raises in this model
ApiErrors ==
    {Err("RateLimitError", TRUE, 429), Err("APIStatusError", TRUE, 503),
     Err("AuthenticationError", TRUE, 401), Err("ValueError", FALSE, 0)}

\* what one chat.completions.create call can do
ApiOutcomes ==
    {Outcome("content", t, NoError) : t \in reply_pool}
        \cup {Outcome("no_choices", <<>>, NoError), Outcome("no_message", <<>>, NoError)}
        \cup {Outcome("error", <<>>, e) : e \in ApiErrors}

\* mutant: the content is stripped before it is returned
ResponseText_Stripped(o) ==
    IF o.kind = "no_choices" THEN EmptyChoicesText
    ELSE IF o.kind = "no_message" \/ o.text = <<>> THEN EmptyContentText
    ELSE Strip(o.text)

\* a loop without the two guards: the content is returned as it is
ResponseText_Unguarded(o) == o.text

\* lines 380-392: what the loop returns for a response
ResponseText(o) ==
    IF o.kind = "no_choices" THEN EmptyChoicesText
    ELSE IF o.kind = "no_message" \/ o.text = <<>> THEN EmptyContentText
    ELSE o.text

\* mutant: the last-attempt test is off by one
AfterError_OffByOne(error, att, retries) ==
    IF att > retries THEN "break"
    ELSE IF ~_is_retryable_error(error) THEN "break"
    ELSE "sleep"

\* mutant: every error is retried
AfterError_RetryAll(error, att, retries) ==
    IF att >= retries THEN "break"
    ELSE "sleep"

\* lines 394-404: after an exception the loop breaks or goes on to sleep
AfterError(error, att, retries) ==
    IF att >= retries THEN "break"
    ELSE IF ~_is_retryable_error(error) THEN "break"
    ELSE "sleep"

ApiCall ==
    /\ rpc = "api"
    /\ \E o \in ApiOutcomes :
          /\ events' = Append(events, Event("call", o))
          /\ IF o.kind = "error"
             THEN /\ last_error' = o.error
                  /\ rpc' = IF AfterError(o.error, attempt, max_retries) = "break"
                            THEN "reraise" ELSE "sleep"
                  /\ UNCHANGED review_text
             ELSE /\ review_text' = ResponseText(o)
                  /\ rpc' = "response"
                  /\ UNCHANGED last_error
    /\ UNCHANGED <<pure_vars, main_vars, arg_diff, max_diff_bytes, max_content_bytes, diff_only,
                   max_retries, custom_prompt, file_state, diff, content,
                   redacted_diff, redacted_content, prompt, attempt, raised, ret,
                   stages, reply_pool>>

\* lines 406-419, and the loop's next iteration
Sleep ==
    /\ rpc = "sleep"
    /\ events' = Append(events, Event("sleep", Outcome(None, <<>>, NoError)))
    /\ attempt' = attempt + 1
    /\ rpc' = "api"
    /\ UNCHANGED <<pure_vars, main_vars, arg_diff, max_diff_bytes, max_content_bytes, diff_only,
                   max_retries, custom_prompt, file_state, diff, content,
                   redacted_diff, redacted_content, prompt, last_error, review_text,
                   raised, ret, stages, reply_pool>>

\* lines 421-422
RaiseLastError ==
    /\ rpc = "reraise"
    /\ raised' = last_error
    /\ rpc' = "except"
    /\ UNCHANGED <<pure_vars, main_vars, arg_diff, max_diff_bytes, max_content_bytes, diff_only,
                   max_retries, custom_prompt, file_state, diff, content,
                   redacted_diff, redacted_content, prompt, attempt, last_error,
                   review_text, ret, events, stages, reply_pool>>

(***************************************************************************)
(* review_file after the API call.                                         *)
(***************************************************************************)
\* re.search(r"AI-REVIEW:\[(PASS|FAIL)\]", review_text, re.IGNORECASE)
HasAnyMarker(text) == SearchMarker(text, "PASS") \/ SearchMarker(text, "FAIL")

\* lines 542-557
ReviewOf(text) ==
    IF text = <<>> \/ Strip(text) = <<>>
    THEN Result(FALSE, BlankResponseText, NoText)
    ELSE LET parsed == _parse_review_text(text)
             passed == _determine_pass_fail(text)
             human_text == IF ~HasAnyMarker(text)
                           THEN <<"m", "w", "w">> \o parsed.human_text
                           ELSE parsed.human_text
         IN  IF parsed.raised # None
             THEN Result(FALSE, UnexpectedErrorText, NoText)
             ELSE Result(passed, human_text, parsed.findings)

HandleResponse ==
    /\ rpc = "response"
    /\ ret' = ReviewOf(review_text)
    /\ rpc' = "returned"
    /\ UNCHANGED <<pure_vars, main_vars, arg_diff, max_diff_bytes, max_content_bytes, diff_only,
                   max_retries, custom_prompt, file_state, diff, content,
                   redacted_diff, redacted_content, prompt, attempt, last_error,
                   review_text, raised, events, stages, reply_pool>>

\* lines 559-574
ErrorResult(error) ==
    IF IsInstance(error, "APIError")
    THEN Result(FALSE, ApiErrorText, NoText)
    ELSE Result(FALSE, UnexpectedErrorText, NoText)

HandleException ==
    /\ rpc = "except"
    /\ ret' = ErrorResult(raised)
    /\ rpc' = "returned"
    /\ UNCHANGED <<pure_vars, main_vars, arg_diff, max_diff_bytes, max_content_bytes, diff_only,
                   max_retries, custom_prompt, file_state, diff, content,
                   redacted_diff, redacted_content, prompt, attempt, last_error,
                   review_text, raised, events, stages, reply_pool>>

FileNames == {"a.py", "b.py", "p.lock"}

\* no run of main is in progress
NoExit == -1

MainIdle ==
    /\ mpc = "idle"
    /\ api_key_set = FALSE
    /\ prompts_file = "unset"
    /\ include_patterns = <<>>
    /\ exclude_patterns = <<>>
    /\ argv_files = <<>>
    /\ args_files = <<>>
    /\ jobs = 1
    /\ verbose = FALSE
    /\ output_file = FALSE
    /\ init_fails = FALSE
    /\ disk_fails = FALSE
    /\ tasks = <<>>
    /\ results = <<>>
    /\ failed_files = <<>>
    /\ all_reviews = <<>>
    /\ fetched = [f \in FileNames |-> 0]
    /\ written = NoText
    /\ exit_code = NoExit
    /\ filetype_prompts = "unloaded"
    /\ outcomes = <<>>

(***************************************************************************)
(* Inputs.                                                                 *)
(***************************************************************************)
ResponseTexts(n) == SeqsUpTo(ResponseTokens, n)

ReviewDiffs ==
    {<<>>,
     <<"w", "n">>,
     <<"-", "x">>,
     <<"d", "x", "n", "@", "n", "+", "S">>,
     <<"@", "n", "+", "K", "x", "x", "E">>,
     <<"@", "n", "+", "s", "x">>,
     <<"@", "n", "+", "s", "n", "+", "x", "x", "x", "x", "x">>,
     <<"d", "x", "n", "@", "n", "+", "x", "n", "x", "x", "x", "x">>}

ByteBudgets == {0, 4, 9}

ReviewFiles ==
    {File("text", <<"x", "S", "n", "x", "x">>), File("text", <<"S", "x">>),
     File("text", <<>>), File("binary", <<>>), File("unreadable", <<>>)}

Templates ==
    {NoTemplate,
     Template(TRUE, TRUE, FALSE, FALSE, FALSE, TRUE),
     Template(TRUE, FALSE, TRUE, TRUE, TRUE, FALSE)}

(***************************************************************************)
(* Specifications.                                                         *)
(***************************************************************************)
\* _determine_pass_fail on every response text of at most MaxTextLen tokens
InitPassFail ==
    /\ fn_input \in ResponseTexts(MaxTextLen)
    /\ fn_called = FALSE
    /\ fn_output = FALSE
    /\ ReviewIdle
    /\ MainIdle

NextPassFail == Call_determine_pass_fail

SpecPassFail == InitPassFail /\ [][NextPassFail]_vars

\* one call of review_file: every pipeline input with a few replies, and a few
\* pipeline inputs with every reply and every retry budget
InitReview ==
    /\ PureIdle
    /\ MainIdle
    /\ rpc = "entry"
    /\ \/ /\ arg_diff \in ReviewDiffs
          /\ max_diff_bytes \in ByteBudgets
          /\ max_content_bytes \in {0, 4}
          /\ diff_only \in BOOLEAN
          /\ custom_prompt \in Templates
          /\ file_state \in ReviewFiles
          /\ max_retries = 1
          /\ reply_pool = {<<"P">>, <<"x">>}
       \/ /\ arg_diff \in {<<"-", "x">>, <<"@", "n", "+", "K", "x", "x", "E">>}
          /\ max_diff_bytes \in {0, 9}
          /\ max_content_bytes = 0
          /\ diff_only \in BOOLEAN
          /\ custom_prompt = NoTemplate
          /\ file_state = File("text", <<"x", "S", "n", "x", "x">>)
          /\ max_retries \in 0..MaxRetriesBound
          /\ reply_pool = ResponseTexts(MaxRespLen)
    /\ diff = arg_diff
    /\ content = <<>>
    /\ redacted_diff = <<>>
    /\ redacted_content = <<>>
    /\ prompt = NoPrompt
    /\ attempt = 0
    /\ last_error = NoError
    /\ review_text = NoText
    /\ raised = NoError
    /\ ret = NoResult
    /\ events = <<>>
    /\ stages = <<>>

NextReview ==
    \/ EmptyDiffReturn
    \/ ApplyDiffLimits
    \/ ReadContent
    \/ Redact
    \/ BuildPrompt
    \/ ApiCall
    \/ Sleep
    \/ RaiseLastError
    \/ HandleResponse
    \/ HandleException

SpecReview == InitReview /\ [][NextReview]_vars

(***************************************************************************)
(* main.py: the file filter.                                               *)
(***************************************************************************)
\* fnmatch.fnmatch on the names and patterns of this model
fnmatch(name, pattern) ==
    \/ pattern = "*.py" /\ name \in {"a.py", "b.py"}
    \/ pattern = "*.lock" /\ name = "p.lock"
    \/ pattern = name

\* main.py's should_review_file; the names have no directory part, so the
\* basename is the name
main_should_review_file(filename, includes, excludes) ==
    IF \E i \in 1..Len(excludes) : fnmatch(filename, excludes[i]) THEN FALSE
    ELSE IF includes = <<>> THEN TRUE
    ELSE \E i \in 1..Len(includes) : fnmatch(filename, includes[i])

\* a loop that keeps every candidate
filtered_files_Unfiltered(files, includes, excludes) == files

\* the loop of lines 830-834
filtered_files(files, includes, excludes) ==
    SelectSeq(files, LAMBDA f : main_should_review_file(f, includes, excludes))

(***************************************************************************)
(* main.py: one review task.                                               *)
(***************************************************************************)
\* what git diff prints for each file: a.py stages an access key
GitDiff ==
    [f \in FileNames |->
        IF f = "a.py" THEN <<"@", "n", "+", "S", "n">> ELSE <<"@", "n", "+", "x", "n">>]

\* what the retry loop of main.py ends with
MainOutcomes ==
    {Outcome("content", <<"P">>, NoError),
     Outcome("error", <<>>, Err("RateLimitError", TRUE, 429))}

\* main.py's review_file (the opening-marker regex of line 638 cannot match a
\* marker, so the two searches decide)
main_review_file(d, o) ==
    IF Strip(d) = <<>> THEN [passed |-> TRUE, review |-> NoChangesText]
    ELSE IF o.kind = "error"
    THEN [passed |-> FALSE,
          review |-> IF IsInstance(o.error, "APIError")
                     THEN ApiErrorText ELSE UnexpectedErrorText]
    ELSE IF Strip(o.text) = <<>> THEN [passed |-> FALSE, review |-> BlankResponseText]
    ELSE IF SearchMarker(o.text, "FAIL") THEN [passed |-> FALSE, review |-> o.text]
    ELSE IF SearchMarker(o.text, "PASS") THEN [passed |-> TRUE, review |-> o.text]
    ELSE [passed |-> FALSE, review |-> <<"m", "w", "w">> \o o.text]

Tuple(filename, passed, review, d) ==
    [filename |-> filename, passed |-> passed, review |-> review, diff |-> d]

\* lines 880-890: the tuple carries the diff as get_file_diff returned it
review_single_file(filename, o) ==
    LET d == GitDiff[filename]
        r == main_review_file(d, o)
    IN  Tuple(filename, r.passed, r.review, d)

TaskExceptionText == <<"F", "w", "x", "w", "w">>

\* mutant: a task that raised counts as passed
failed_tuple_Passed(filename) == Tuple(filename, TRUE, TaskExceptionText, <<>>)

\* lines 938-947: the tuple that stands for a task that raised
failed_tuple(filename) == Tuple(filename, FALSE, TaskExceptionText, <<>>)

\* lines 901-914 and 958-971: the log entry of one file
review_log_entry(t, verb) ==
    <<"n", "n", "=", "n", t.filename, "n", "=", "n", "n">>
        \o (IF verb THEN <<"G", "n", "k", "n">> \o t.diff \o <<"k", "n", "n">> ELSE <<>>)
        \o t.review

Review(filename, entry) == [filename |-> filename, entry |-> entry]

\* mutant: only the first tuple is looked at
FailedOf_FirstOnly(rs) ==
    IF rs # <<>> /\ ~Head(rs).passed THEN <<Head(rs).filename>> ELSE <<>>

RECURSIVE FailedOf(_)
\* the file names of the tuples that did not pass, in order
FailedOf(rs) ==
    IF rs = <<>> THEN <<>>
    ELSE (IF Head(rs).passed THEN <<>> ELSE <<Head(rs).filename>>) \o FailedOf(Tail(rs))

\* line 950: a later occurrence of a name overwrites the earlier index
filename_to_index(files) ==
    [f \in Range(files) |->
        (CHOOSE i \in 1..Len(files) :
            files[i] = f /\ \A j \in (i + 1)..Len(files) : files[j] # f) - 1]

RECURSIVE InsertByKey(_, _, _)
InsertByKey(sorted, t, key) ==
    IF sorted = <<>> THEN <<t>>
    ELSE IF key[t.filename] < key[Head(sorted).filename] THEN <<t>> \o sorted
    ELSE <<Head(sorted)>> \o InsertByKey(Tail(sorted), t, key)

RECURSIVE SortByKey(_, _)
\* list.sort(key=...): stable
SortByKey(rs, key) ==
    IF rs = <<>> THEN <<>>
    ELSE InsertByKey(SortByKey(SubSeq(rs, 1, Len(rs) - 1), key), rs[Len(rs)], key)

RECURSIVE LStripNewlines(_)
\* str.lstrip("\n")
LStripNewlines(text) ==
    IF text # <<>> /\ Head(text) = "n" THEN LStripNewlines(Tail(text)) ELSE text

(***************************************************************************)
(* main.py: main, from the credential check on.                            *)
(***************************************************************************)
Task(state, has_raised, result) == [state |-> state, raised |-> has_raised, result |-> result]

\* the states of the file --filetype-prompts names
PromptsFileStates ==
    {"unset", "valid", "missing", "unreadable", "malformed", "not_dict", "undecodable"}

\* mutant: a file that cannot be read is an error
load_filetype_prompts_Strict(pf) ==
    IF pf \in {"undecodable", "unreadable", "missing"}
    THEN [raised |-> TRUE, prompts |-> "unloaded"]
    ELSE IF pf = "valid" THEN [raised |-> FALSE, prompts |-> "loaded"]
    ELSE [raised |-> FALSE, prompts |-> "empty"]

\* main.py's load_filetype_prompts: JSONDecodeError and IOError are caught;
\* the UnicodeDecodeError of a file that is not UTF-8 is neither
load_filetype_prompts(pf) ==
    IF pf = "undecodable" THEN [raised |-> TRUE, prompts |-> "unloaded"]
    ELSE IF pf = "valid" THEN [raised |-> FALSE, prompts |-> "loaded"]
    ELSE [raised |-> FALSE, prompts |-> "empty"]

\* lines 809-874 and the branch of line 892
Setup ==
    /\ mpc = "start"
    /\ LET filtered == filtered_files(args_files, include_patterns, exclude_patterns)
           loaded == load_filetype_prompts(prompts_file)
       IN  IF ~api_key_set
           THEN /\ mpc' = "exit" /\ exit_code' = 1
                /\ UNCHANGED <<args_files, filetype_prompts>>
           ELSE IF args_files = <<>>
           THEN /\ mpc' = "exit" /\ exit_code' = 0
                /\ UNCHANGED <<args_files, filetype_prompts>>
           ELSE IF filtered = <<>>
           THEN /\ mpc' = "exit" /\ exit_code' = 0 /\ args_files' = filtered
                /\ UNCHANGED filetype_prompts
           ELSE IF loaded.raised
           THEN /\ mpc' = "aborted" /\ exit_code' = 1 /\ args_files' = filtered
                /\ UNCHANGED filetype_prompts
           ELSE IF init_fails
           THEN /\ mpc' = "exit" /\ exit_code' = 1 /\ args_files' = filtered
                /\ filetype_prompts' = loaded.prompts
           ELSE /\ mpc' = IF jobs = 1 \/ Len(filtered) = 1 THEN "sequential" ELSE "submit"
                /\ args_files' = filtered
                /\ filetype_prompts' = loaded.prompts
                /\ UNCHANGED exit_code
    /\ UNCHANGED <<pure_vars, review_vars, outcomes, api_key_set, prompts_file, include_patterns,
                   exclude_patterns, argv_files, jobs, verbose, output_file,
                   init_fails, disk_fails, tasks, results, failed_files,
                   all_reviews, fetched, written>>

\* lines 894-915: one iteration of the sequential loop; an exception of
\* review_single_file leaves main
SeqReview ==
    /\ mpc = "sequential"
    /\ LET i == Len(all_reviews) + 1
           filename == args_files[i]
       IN  /\ fetched' = [fetched EXCEPT ![filename] = @ + 1]
           /\ \/ \E o \in MainOutcomes :
                    LET t == review_single_file(filename, o)
                    IN  /\ outcomes' = Append(outcomes, t)
                        /\ failed_files' = failed_files \o FailedOf(<<t>>)
                        /\ all_reviews' =
                               Append(all_reviews,
                                      Review(t.filename, review_log_entry(t, verbose)))
                        /\ mpc' = IF i = Len(args_files) THEN "output" ELSE "sequential"
                        /\ UNCHANGED exit_code
              \/ /\ mpc' = "aborted"
                 /\ exit_code' = 1
                 /\ UNCHANGED <<failed_files, all_reviews, outcomes>>
    /\ UNCHANGED <<pure_vars, review_vars, filetype_prompts, api_key_set, prompts_file, include_patterns,
                   exclude_patterns, argv_files, args_files, jobs, verbose,
                   output_file, init_fails, disk_fails, tasks, results, written>>

\* lines 922-926: every file is submitted to the pool
Submit ==
    /\ mpc = "submit"
    /\ tasks' = [i \in 1..Len(args_files) |->
                    Task("queued", FALSE, failed_tuple(args_files[i]))]
    /\ mpc' = "parallel"
    /\ UNCHANGED <<pure_vars, review_vars, filetype_prompts, outcomes, api_key_set, prompts_file, include_patterns,
                   exclude_patterns, argv_files, args_files, jobs, verbose,
                   output_file, init_fails, disk_fails, results, failed_files,
                   all_reviews, fetched, written, exit_code>>

\* a worker thread runs review_single_file for one file
RunTask(i) ==
    /\ mpc = "parallel"
    /\ tasks[i].state = "queued"
    /\ fetched' = [fetched EXCEPT ![args_files[i]] = @ + 1]
    /\ \/ \E o \in MainOutcomes :
             tasks' = [tasks EXCEPT ![i] =
                          Task("done", FALSE, review_single_file(args_files[i], o))]
       \/ tasks' = [tasks EXCEPT ![i] = Task("done", TRUE, failed_tuple(args_files[i]))]
    /\ UNCHANGED <<pure_vars, review_vars, filetype_prompts, outcomes, mpc, api_key_set, prompts_file, include_patterns,
                   exclude_patterns, argv_files, args_files, jobs, verbose,
                   output_file, init_fails, disk_fails, results, failed_files,
                   all_reviews, written, exit_code>>

\* lines 929-947: as_completed hands over a finished future
Collect(i) ==
    /\ mpc = "parallel"
    /\ tasks[i].state = "done"
    /\ results' = Append(results, IF tasks[i].raised
                                  THEN failed_tuple(args_files[i])
                                  ELSE tasks[i].result)
    /\ tasks' = [tasks EXCEPT ![i].state = "collected"]
    /\ mpc' = IF \A j \in DOMAIN tasks : j # i => tasks[j].state = "collected"
              THEN "process" ELSE "parallel"
    /\ UNCHANGED <<pure_vars, review_vars, filetype_prompts, outcomes, api_key_set, prompts_file, include_patterns,
                   exclude_patterns, argv_files, args_files, jobs, verbose,
                   output_file, init_fails, disk_fails, failed_files,
                   all_reviews, fetched, written, exit_code>>

\* lines 949-972: sort, then one log entry per tuple
ProcessResults ==
    /\ mpc = "process"
    /\ LET sorted == SortByKey(results, filename_to_index(args_files))
       IN  /\ results' = sorted
           /\ outcomes' = sorted
           /\ failed_files' = FailedOf(sorted)
           /\ all_reviews' = [k \in 1..Len(sorted) |->
                                 Review(sorted[k].filename,
                                        review_log_entry(sorted[k], verbose))]
    /\ mpc' = "output"
    /\ UNCHANGED <<pure_vars, review_vars, filetype_prompts, api_key_set, prompts_file, include_patterns,
                   exclude_patterns, argv_files, args_files, jobs, verbose,
                   output_file, init_fails, disk_fails, tasks, fetched, written,
                   exit_code>>

\* lines 974-1007: the output file, then the summary and the exit code
WriteOutput ==
    /\ mpc = "output"
    /\ IF output_file
       THEN IF disk_fails
            THEN output_file' = FALSE /\ UNCHANGED written
            ELSE /\ written' = LStripNewlines(
                                  Flatten([k \in 1..Len(all_reviews) |->
                                              all_reviews[k].entry], <<"n">>))
                 /\ UNCHANGED output_file
       ELSE UNCHANGED <<output_file, written>>
    /\ exit_code' = IF failed_files # <<>> THEN 1 ELSE 0
    /\ mpc' = "exit"
    /\ UNCHANGED <<pure_vars, review_vars, filetype_prompts, outcomes, api_key_set, prompts_file, include_patterns,
                   exclude_patterns, argv_files, args_files, jobs, verbose,
                   init_fails, disk_fails, tasks, results, failed_files,
                   all_reviews, fetched>>

\* the runs of main: every list of at most MaxFiles reviewable files under
\* every mode, and a few lists under every prompts file, setup and filter
\* condition
Init ==
    /\ PureIdle
    /\ ReviewIdle
    /\ mpc = "start"
    /\ \/ /\ argv_files \in SeqsUpTo({"a.py", "b.py"}, MaxFiles)
          /\ argv_files # <<>>
          /\ jobs \in {1, 2}
          /\ verbose \in BOOLEAN
          /\ output_file = verbose
          /\ disk_fails = FALSE
          /\ api_key_set = TRUE
          /\ prompts_file = "unset"
          /\ init_fails = FALSE
          /\ include_patterns = <<>>
          /\ exclude_patterns = <<>>
       \/ /\ argv_files \in {<<"a.py">>, <<"a.py", "b.py">>}
          /\ jobs \in {1, 2}
          /\ verbose = FALSE
          /\ output_file = FALSE
          /\ disk_fails = FALSE
          /\ api_key_set \in BOOLEAN
          /\ prompts_file \in PromptsFileStates
          /\ init_fails = FALSE
          /\ include_patterns = <<>>
          /\ exclude_patterns = <<>>
       \/ /\ argv_files \in {<<>>, <<"p.lock">>, <<"a.py", "p.lock">>,
                             <<"p.lock", "b.py">>}
          /\ prompts_file = "unset"
          /\ jobs \in {1, 2}
          /\ verbose \in BOOLEAN
          /\ output_file \in BOOLEAN
          /\ disk_fails \in BOOLEAN
          /\ api_key_set \in BOOLEAN
          /\ init_fails \in BOOLEAN
          /\ include_patterns \in {<<>>, <<"*.py">>}
          /\ exclude_patterns \in {<<>>, <<"*.lock">>}
    /\ args_files = argv_files
    /\ tasks = <<>>
    /\ results = <<>>
    /\ failed_files = <<>>
    /\ all_reviews = <<>>
    /\ fetched = [f \in FileNames |-> 0]
    /\ written = NoText
    /\ exit_code = NoExit
    /\ filetype_prompts = "unloaded"
    /\ outcomes = <<>>

Next ==
    \/ Setup
    \/ SeqReview
    \/ Submit
    \/ \E i \in DOMAIN tasks : RunTask(i)
    \/ \E i \in DOMAIN tasks : Collect(i)
    \/ ProcessResults
    \/ WriteOutput

Spec == Init /\ [][Next]_vars

(***************************************************************************)
(* AIReviewer.get_file_diff (reviewer.py), called on its own.              *)
(***************************************************************************)
\* what one subprocess.run of git diff can do: print and exit 0, or raise
GitModes ==
    {"ok", "CalledProcessError", "TimeoutExpired", "FileNotFoundError",
     "UnicodeDecodeError", "PermissionError"}

\* the exceptions the two except clauses of lines 87-91 and 102-106 name
CaughtGitErrors == {"CalledProcessError", "TimeoutExpired", "FileNotFoundError"}

\* the repository and the git binary as one call of get_file_diff finds them:
\* the staged and the unstaged changes of the file (empty when there are
\* none) and what each of the two git calls does
GitEnv(staged, unstaged, cached_call, plain_call) ==
    [staged |-> staged, unstaged |-> unstaged,
     cached_call |-> cached_call, plain_call |-> plain_call]

\* subprocess.run(["git", "diff", ...], check=True): git diff exits 0 and
\* prints the changes, nothing when there are none
RunGitDiff(mode, changes) ==
    IF mode = "ok" THEN [raised |-> None, stdout |-> changes]
    ELSE [raised |-> mode, stdout |-> <<>>]

DiffResult(exc, value) == [raised |-> exc, value |-> value]

get_file_diff(env) ==
    LET cached == RunGitDiff(env.cached_call, env.staged)
        plain == RunGitDiff(env.plain_call, env.unstaged)
    IN  IF cached.raised = None THEN DiffResult(None, cached.stdout)
        ELSE IF cached.raised \notin CaughtGitErrors THEN DiffResult(cached.raised, <<>>)
        ELSE IF plain.raised = None THEN DiffResult(None, plain.stdout)
        ELSE IF plain.raised \notin CaughtGitErrors THEN DiffResult(plain.raised, <<>>)
        ELSE DiffResult(None, <<>>)

Call_get_file_diff ==
    /\ ~fn_called
    /\ fn_called' = TRUE
    /\ fn_output' = get_file_diff(fn_input)
    /\ UNCHANGED <<fn_input, review_vars, main_vars>>

GitEnvs ==
    {GitEnv(st, un, c, pl) :
        st \in {<<>>, <<"@", "n", "+", "x", "n">>},
        un \in {<<>>, <<"@", "n", "-", "x", "n">>},
        c \in GitModes, pl \in GitModes}

InitDiff ==
    /\ fn_input \in GitEnvs
    /\ fn_called = FALSE
    /\ fn_output = DiffResult(None, <<>>)
    /\ ReviewIdle
    /\ MainIdle

NextDiff == Call_get_file_diff

SpecDiff == InitDiff /\ [][NextDiff]_vars

(***************************************************************************)
(* utils.should_review_file (utils.py 98-136).  File names and patterns    *)
(* are sequences of one-character tokens: "/" separates path components,   *)
(* "." starts an extension, "*" in a pattern is the fnmatch wildcard       *)
(* (fnmatch translates it to ".*" with DOTALL, so it also spans "/");      *)
(* every other token is a literal character.                               *)
(***************************************************************************)
MaxPatterns == 2

RECURSIVE GlobMatch(_, _)
\* fnmatch.fnmatch(name, pat) on a POSIX host: a full match, case kept.
GlobMatch(name, pat) ==
    IF pat = <<>> THEN name = <<>>
    ELSE IF Head(pat) = "*"
         THEN \/ GlobMatch(name, Tail(pat))
              \/ name # <<>> /\ GlobMatch(Tail(name), pat)
         ELSE /\ name # <<>>
              /\ Head(name) = Head(pat)
              /\ GlobMatch(Tail(name), Tail(pat))

RECURSIVE StripTrailingSlashes(_)
StripTrailingSlashes(name) ==
    IF name # <<>> /\ name[Len(name)] = "/"
    THEN StripTrailingSlashes(SubSeq(name, 1, Len(name) - 1))
    ELSE name

\* Path(filename).name: the last component, trailing separators dropped.
PathName(filename) ==
    LET p == StripTrailingSlashes(filename)
        slashes == {i \in 1..Len(p) : p[i] = "/"}
        last == IF slashes = {} THEN 0
                ELSE CHOOSE i \in slashes : \A j \in slashes : j <= i
    IN  SubSeq(p, last + 1, Len(p))

\* The test of utils.py 123 and 132: full path or basename.
MatchesAny(filename, patterns) ==
    \E i \in 1..Len(patterns) :
        \/ GlobMatch(filename, patterns[i])
        \/ GlobMatch(PathName(filename), patterns[i])

\* An ordering of the two loops that lets a matching include decide first.
should_review_file_IncludeFirst(filename, includes, excludes) ==
    IF includes # <<>> /\ MatchesAny(filename, includes)
    THEN TRUE
    ELSE IF MatchesAny(filename, excludes) THEN FALSE
    ELSE includes = <<>>

\* An include test that looks at the full path only.
should_review_file_FullPathOnly(filename, includes, excludes) ==
    IF MatchesAny(filename, excludes) THEN FALSE
    ELSE IF includes = <<>> THEN TRUE
    ELSE \E i \in 1..Len(includes) :
            GlobMatch(filename, includes[i])

should_review_file(filename, includes, excludes) ==
    IF excludes # <<>> /\ MatchesAny(filename, excludes)
    THEN FALSE
    ELSE IF includes = <<>> THEN TRUE
    ELSE IF MatchesAny(filename, includes) THEN TRUE
    ELSE FALSE

\* "", a.p, a.j, a.m.j, v/a.p, v/a.j, s/a.p, v/ : p, j extensions, m the
\* "min" infix, v the vendor directory, s a source directory.
FilterNames ==
    { <<>>,
      <<"a", ".", "p">>,
      <<"a", ".", "j">>,
      <<"a", ".", "m", ".", "j">>,
      <<"v", "/", "a", ".", "p">>,
      <<"v", "/", "a", ".", "j">>,
      <<"s", "/", "a", ".", "p">>,
      <<"v", "/">> }

\* *.p, *.j, *.m.j, v/**, a.p
FilterPatterns ==
    { <<"*", ".", "p">>,
      <<"*", ".", "j">>,
      <<"*", ".", "m", ".", "j">>,
      <<"v", "/", "*", "*">>,
      <<"a", ".", "p">> }

\* The entries of utils.py 9-50 that the names above can meet: vendor/**
\* and *.min.js.
DEFAULT_EXCLUDE_PATTERNS ==
    << <<"v", "/", "*", "*">>, <<"*", ".", "m", ".", "j">> >>

FilterArgs(filename, includes, excludes) ==
    [filename |-> filename,
     include_patterns |-> includes,
     exclude_patterns |-> excludes]

Call_should_review_file ==
    /\ ~fn_called
    /\ fn_called' = TRUE
    /\ fn_output' = should_review_file(fn_input.filename,
                                       fn_input.include_patterns,
                                       fn_input.exclude_patterns)
    /\ UNCHANGED <<fn_input, review_vars, main_vars>>

InitFilter ==
    /\ fn_input \in
         {FilterArgs(f, inc, exc) :
             f \in FilterNames,
             inc \in SeqsUpTo(FilterPatterns, MaxPatterns),
             exc \in SeqsUpTo(FilterPatterns, MaxPatterns)
                        \cup {DEFAULT_EXCLUDE_PATTERNS}}
    /\ fn_called = FALSE
    /\ fn_output = FALSE
    /\ ReviewIdle
    /\ MainIdle

NextFilter == Call_should_review_file

SpecFilter == InitFilter /\ [][NextFilter]_vars

(***************************************************************************)
(* AIReviewer.truncate_text_with_marker alone (reviewer.py 248-279): texts *)
(* of one-byte characters "x", "n" and the two-byte character "u", under   *)
(* every budget from below zero to above the longest text.                 *)
(***************************************************************************)
MaxTruncLen == 4
MaxBudget == 9

TruncateArgs(text, max_bytes) == [text |-> text, max_bytes |-> max_bytes]

Call_truncate_text_with_marker ==
    /\ ~fn_called
    /\ fn_called' = TRUE
    /\ fn_output' = truncate_text_with_marker(fn_input.text, fn_input.max_bytes, "diff")
    /\ UNCHANGED <<fn_input, review_vars, main_vars>>

InitTruncate ==
    /\ fn_input \in {TruncateArgs(t, b) :
                        t \in SeqsUpTo({"x", "n", "u"}, MaxTruncLen),
                        b \in -1..MaxBudget}
    /\ fn_called = FALSE
    /\ fn_output = <<>>
    /\ ReviewIdle
    /\ MainIdle

NextTruncate == Call_truncate_text_with_marker

SpecTruncate == InitTruncate /\ [][NextTruncate]_vars

(***************************************************************************)
(* AIReviewer._is_retryable_error alone (reviewer.py 331-350): every       *)
(* exception class of the model, without a status_code attribute and with  *)
(* each of a set of status codes.                                          *)
(***************************************************************************)
ErrorClasses == DOMAIN BaseClass

StatusCodes == {400, 401, 403, 404, 422, 429, 500, 502, 503, 504,
                520, 521, 522, 523, 524, 525}

RetryInputs ==
    {Err(c, FALSE, 0) : c \in ErrorClasses}
        \cup {Err(c, TRUE, code) : c \in ErrorClasses, code \in StatusCodes}

Call_is_retryable_error ==
    /\ ~fn_called
    /\ fn_called' = TRUE
    /\ fn_output' = _is_retryable_error(fn_input)
    /\ UNCHANGED <<fn_input, review_vars, main_vars>>

InitRetryable ==
    /\ fn_input \in RetryInputs
    /\ fn_called = FALSE
    /\ fn_output = FALSE
    /\ ReviewIdle
    /\ MainIdle

NextRetryable == Call_is_retryable_error

SpecRetryable == InitRetryable /\ [][NextRetryable]_vars

(***************************************************************************)
(* AIReviewer._calculate_retry_delay (reviewer.py 352-363).  Delays are    *)
(* whole seconds, retry_jitter is given in percent and random.random() is  *)
(* one of the values 0/RandSteps .. (RandSteps-1)/RandSteps of [0, 1); the *)
(* result is the delay in units of 1/DelayScale second, so that no         *)
(* rounding occurs.                                                        *)
(***************************************************************************)
\* largest attempt number a delay is computed for
MaxAttempt == 4
\* number of values random.random() takes
RandSteps == 4

DelayScale == 100 * RandSteps

RECURSIVE Pow2(_)
Pow2(n) == IF n = 0 THEN 1 ELSE 2 * Pow2(n - 1)

Min(a, b) == IF a <= b THEN a ELSE b

DelayArgs(initial_retry_delay, max_retry_delay, retry_jitter, att, random) ==
    [initial_retry_delay |-> initial_retry_delay,
     max_retry_delay |-> max_retry_delay,
     retry_jitter |-> retry_jitter,
     attempt |-> att,
     random |-> random]

\* a delay whose exponential value is not capped
_calculate_retry_delay_Uncapped(self) ==
    LET base_delay == self.initial_retry_delay * Pow2(self.attempt)
        jitter == base_delay * self.retry_jitter * self.random
    IN  base_delay * DelayScale + jitter

_calculate_retry_delay(self) ==
    LET exponential == self.initial_retry_delay * Pow2(self.attempt)
        base_delay == Min(exponential, self.max_retry_delay)
        jitter == base_delay * self.retry_jitter * self.random
    IN  base_delay * DelayScale + jitter

Call_calculate_retry_delay ==
    /\ ~fn_called
    /\ fn_called' = TRUE
    /\ fn_output' = _calculate_retry_delay(fn_input)
    /\ UNCHANGED <<fn_input, review_vars, main_vars>>

InitDelay ==
    /\ fn_input \in {DelayArgs(i, m, j, a, r) :
                        i \in {1, 3}, m \in {2, 10, 60}, j \in {0, 10, 100},
                        a \in 0..MaxAttempt, r \in 0..(RandSteps - 1)}
    /\ fn_called = FALSE
    /\ fn_output = 0
    /\ ReviewIdle
    /\ MainIdle

NextDelay == Call_calculate_retry_delay

SpecDelay == InitDelay /\ [][NextDelay]_vars

(***************************************************************************)
(* AIReviewer.extract_changed_hunks alone (reviewer.py 281-329): diffs of  *)
(* up to MaxDiffLines lines, each a hunk header, an added line, a context  *)
(* line, a file header, a --- / +++ line, some other line or an empty      *)
(* line.                                                                   *)
(***************************************************************************)
MaxDiffLines == 4
MaxHunksBound == 2

DiffLines ==
    {<<"@", "x">>, <<"+", "x">>, <<"w", "x">>, <<"d", "x">>, <<"h", "x">>,
     <<"x">>, <<>>}

HunkArgs(d, max_hunks) == [diff |-> d, max_hunks |-> max_hunks]

Call_extract_changed_hunks ==
    /\ ~fn_called
    /\ fn_called' = TRUE
    /\ fn_output' = extract_changed_hunks(fn_input.diff, fn_input.max_hunks)
    /\ UNCHANGED <<fn_input, review_vars, main_vars>>

InitHunks ==
    /\ fn_input \in {HunkArgs(Flatten(ls, <<"n">>), m) :
                        ls \in SeqsUpTo(DiffLines, MaxDiffLines),
                        m \in 1..MaxHunksBound}
    /\ fn_called = FALSE
    /\ fn_output = <<>>
    /\ ReviewIdle
    /\ MainIdle

NextHunks == Call_extract_changed_hunks

SpecHunks == InitHunks /\ [][NextHunks]_vars

(***************************************************************************)
(* AIReviewer._parse_review_text alone (reviewer.py 424-452): every        *)
(* response text of up to MaxTextLen tokens with and without json blocks.  *)
(***************************************************************************)
ParseTokens == {"F", "x", "w", "J", "j", "V"}

Call_parse_review_text ==
    /\ ~fn_called
    /\ fn_called' = TRUE
    /\ fn_output' = _parse_review_text(fn_input)
    /\ UNCHANGED <<fn_input, review_vars, main_vars>>

InitParse ==
    /\ fn_input \in SeqsUpTo(ParseTokens, MaxTextLen)
    /\ fn_called = FALSE
    /\ fn_output = ParseResult(None, <<>>, NoText)
    /\ ReviewIdle
    /\ MainIdle

NextParse == Call_parse_review_text

SpecParse == InitParse /\ [][NextParse]_vars

(***************************************************************************)
(* utils.select_prompt_template (utils.py 213-260).  The registry is the   *)
(* dict of templates in insertion order: a list of patterns without        *)
(* repetition, the template of a pattern being named by the pattern.       *)
(* Patterns and file names are the token sequences of should_review_file,  *)
(* so that len(pattern) is the length of the sequence.                     *)
(***************************************************************************)
MaxRegistry == 3

\* None: the default prompt is used
NoTemplateSelected == <<"None">>

\* glob_pattern_prompts[pattern]
TemplateOf(pattern) == <<"template">> \o pattern

RECURSIVE InsertByLength(_, _)
\* the place sorted(key=len, reverse=True) gives p among the earlier keys:
\* behind every key that is at least as long (the sort is stable)
InsertByLength(p, sorted) ==
    IF sorted = <<>> THEN <<p>>
    ELSE IF Len(Head(sorted)) >= Len(p)
         THEN <<Head(sorted)>> \o InsertByLength(p, Tail(sorted))
         ELSE <<p>> \o sorted

RECURSIVE SortByLength(_)
SortByLength(keys) ==
    IF keys = <<>> THEN <<>>
    ELSE InsertByLength(keys[Len(keys)], SortByLength(SubSeq(keys, 1, Len(keys) - 1)))

RECURSIVE FirstPatternMatch(_, _, _)
\* the loop of lines 247-258
FirstPatternMatch(filename, basename, patterns) ==
    IF patterns = <<>> THEN NoTemplateSelected
    ELSE LET pattern == Head(patterns)
         IN  IF pattern = filename \/ pattern = basename
             THEN FirstPatternMatch(filename, basename, Tail(patterns))
             ELSE IF GlobMatch(filename, pattern) THEN TemplateOf(pattern)
             ELSE IF GlobMatch(basename, pattern) THEN TemplateOf(pattern)
             ELSE FirstPatternMatch(filename, basename, Tail(patterns))

\* a selection that tries the patterns in the order of the registry
select_prompt_template_Unsorted(filename, glob_pattern_prompts) ==
    IF glob_pattern_prompts = <<>> THEN NoTemplateSelected
    ELSE LET basename == PathName(filename)
         IN  IF filename \in Range(glob_pattern_prompts) THEN TemplateOf(filename)
             ELSE IF basename \in Range(glob_pattern_prompts) THEN TemplateOf(basename)
             ELSE FirstPatternMatch(filename, basename, glob_pattern_prompts)

select_prompt_template(filename, glob_pattern_prompts) ==
    IF glob_pattern_prompts = <<>> THEN NoTemplateSelected
    ELSE LET basename == PathName(filename)
         IN  IF filename \in Range(glob_pattern_prompts) THEN TemplateOf(filename)
             ELSE IF basename \in Range(glob_pattern_prompts) THEN TemplateOf(basename)
             ELSE FirstPatternMatch(filename, basename,
                                    SortByLength(glob_pattern_prompts))

\* a.p, v/a.p as exact keys, and the patterns *.p, v/**, a.*, *.j
RegistryKeys ==
    { <<"a", ".", "p">>,
      <<"v", "/", "a", ".", "p">>,
      <<"*", ".", "p">>,
      <<"v", "/", "*", "*">>,
      <<"a", ".", "*">>,
      <<"*", ".", "j">> }

Registries ==
    {r \in SeqsUpTo(RegistryKeys, MaxRegistry) :
        \A i, j \in 1..Len(r) : i # j => r[i] # r[j]}

\* a.p, v/a.p, s/a.p, a.j, x.m
SelectNames ==
    { <<"a", ".", "p">>,
      <<"v", "/", "a", ".", "p">>,
      <<"s", "/", "a", ".", "p">>,
      <<"a", ".", "j">>,
      <<"x", ".", "m">> }

SelectArgs(filename, registry) == [filename |-> filename, registry |-> registry]

Call_select_prompt_template ==
    /\ ~fn_called
    /\ fn_called' = TRUE
    /\ fn_output' = select_prompt_template(fn_input.filename, fn_input.registry)
    /\ UNCHANGED <<fn_input, review_vars, main_vars>>

InitSelect ==
    /\ fn_input \in {SelectArgs(f, r) : f \in SelectNames, r \in Registries}
    /\ fn_called = FALSE
    /\ fn_output = NoTemplateSelected
    /\ ReviewIdle
    /\ MainIdle

NextSelect == Call_select_prompt_template

SpecSelect == InitSelect /\ [][NextSelect]_vars

(***************************************************************************)
(* formatters.format_as_json (formatters.py 14-27) and json.loads on its   *)
(* output.  A review is the tuple (filename, passed, review_text,          *)
(* findings) with findings a list or None.  The JSON text is a sequence    *)
(* of tokens: "[" "]" "{" "}" delimit arrays and objects, "true" and       *)
(* "false" are the booleans, a file name stands for its string literal     *)
(* and "f1", "f2" stand for the objects of two different findings; the     *)
(* keys of an entry are fixed by their position.                           *)
(***************************************************************************)
MaxOutcomes == 2

\* findings = None
NoFindings == <<"None">>

ReviewTuple(filename, passed, text, findings) ==
    [filename |-> filename, passed |-> passed, review_text |-> text,
     findings |-> findings]

JsonEntry(filename, passed, findings) ==
    [filename |-> filename, passed |-> passed, findings |-> findings]

\* Python's truth test of line 24: None and the empty list are false
Truthy(findings) == findings # NoFindings /\ findings # <<>>

\* the dict appended in lines 20-26
json_record(t) ==
    JsonEntry(t.filename, t.passed, IF Truthy(t.findings) THEN t.findings ELSE <<>>)

\* json.dumps of one record
dumps_record(r) ==
    <<"{", r.filename, IF r.passed THEN "true" ELSE "false", "[">>
        \o r.findings \o <<"]", "}">>

Reverse(s) == [i \in 1..Len(s) |-> s[Len(s) + 1 - i]]

\* a formatter that emits the entries last to first
format_as_json_Reversed(reviews) ==
    <<"[">> \o Flatten([i \in 1..Len(reviews) |->
                            dumps_record(json_record(Reverse(reviews)[i]))], <<>>)
           \o <<"]">>

format_as_json(reviews) ==
    <<"[">> \o Flatten([i \in 1..Len(reviews) |->
                            dumps_record(json_record(reviews[i]))], <<>>)
           \o <<"]">>

RECURSIVE loads_records(_)
\* json.loads on the entries of the array, left to right
loads_records(toks) ==
    IF toks = <<>> THEN <<>>
    ELSE LET close == CHOOSE i \in 5..Len(toks) :
                          toks[i] = "]" /\ \A j \in 5..(i - 1) : toks[j] # "]"
         IN  <<JsonEntry(toks[2], toks[3] = "true", SubSeq(toks, 5, close - 1))>>
                 \o loads_records(SubSeq(toks, close + 2, Len(toks)))

json_loads(text) == loads_records(SubSeq(text, 2, Len(text) - 1))

JsonFindings == {NoFindings, <<>>, <<"f1">>, <<"f2", "f1">>}

JsonReviews ==
    {ReviewTuple(f, p, <<"x">>, fs) :
        f \in {"a.py", "b.py"}, p \in BOOLEAN, fs \in JsonFindings}

Call_format_as_json ==
    /\ ~fn_called
    /\ fn_called' = TRUE
    /\ fn_output' = format_as_json(fn_input)
    /\ UNCHANGED <<fn_input, review_vars, main_vars>>

InitJson ==
    /\ fn_input \in SeqsUpTo(JsonReviews, MaxOutcomes)
    /\ fn_called = FALSE
    /\ fn_output = <<>>
    /\ ReviewIdle
    /\ MainIdle

NextJson == Call_format_as_json

SpecJson == InitJson /\ [][NextJson]_vars

(***************************************************************************)
(* Properties of the response parser and of review_file.                   *)
(***************************************************************************)
PassTokens == {"P", "p"}
FailTokens == {"F", "f"}

\* the PASS marker opens the first non-whitespace line
OpensWith(text, toks) == Strip(text) # <<>> /\ Strip(text)[1] \in toks

HasToken(text, toks) == \E i \in 1..Len(text) : text[i] \in toks

\* the marker the claim asks for: PASS opens the response, or PASS is
\* somewhere and FAIL is nowhere
UnambiguousPass(text) ==
    \/ OpensWith(text, PassTokens)
    \/ HasToken(text, PassTokens) /\ ~HasToken(text, FailTokens)

CallEvents == {i \in 1..Len(events) : events[i].ev = "call"}
SleepEvents == {i \in 1..Len(events) : events[i].ev = "sleep"}
ErrorCalls == {i \in CallEvents : events[i].result.kind = "error"}
LastEvent == events[Len(events)]

\* the API gave a non-empty content and review_file got just that text
ModelAnswered ==
    /\ events # <<>>
    /\ LastEvent.ev = "call"
    /\ LastEvent.result.kind = "content"
    /\ LastEvent.result.text # <<>>
    /\ review_text = LastEvent.result.text

C2_BothMarkersFail ==
    fn_called /\ HasToken(fn_input, PassTokens) /\ HasToken(fn_input, FailTokens)
        => ~fn_output

\* C2 as amended: a text holding both markers gives false unless the PASS
\* marker opens its first non-whitespace line.
C2_BothMarkersFailUnlessPassFirst ==
    fn_called /\ HasToken(fn_input, PassTokens) /\ HasToken(fn_input, FailTokens)
              /\ ~OpensWith(fn_input, PassTokens)
        => ~fn_output

C2_Witness ==
    fn_called /\ fn_input = <<"x", "P", "F">> /\ ~fn_output

\* C3: the decision order of _determine_pass_fail: an opening marker decides
\* alone; otherwise FAIL anywhere gives false; otherwise PASS anywhere gives
\* true; otherwise false.  Markers are matched in any case.
C3_DecisionOrder ==
    fn_called =>
        IF OpensWith(fn_input, PassTokens) THEN fn_output
        ELSE IF OpensWith(fn_input, FailTokens) THEN ~fn_output
        ELSE IF HasToken(fn_input, FailTokens) THEN ~fn_output
        ELSE IF HasToken(fn_input, PassTokens) THEN fn_output
        ELSE ~fn_output

C3_Witness ==
    fn_called /\ fn_input = <<"w", "p", "F">> /\ fn_output

\* C4: once an API request was issued, the diff part and the content part
\* of its prompt are what redact returned: no secret pattern matches in them.
C4_PromptPartsRedacted ==
    CallEvents # {} =>
        /\ prompt.diff \in {redacted_diff, <<>>}
        /\ prompt.content \in {redacted_content, <<>>}
        /\ ~HasSecret(prompt.diff)
        /\ ~HasSecret(prompt.content)
        /\ \E i, j \in 1..Len(stages) :
              /\ stages[i] = "redact_diff"
              /\ stages[j] = "create_review_prompt"
              /\ i < j

C4_Witness ==
    /\ CallEvents # {}
    /\ HasSecret(arg_diff)
    /\ Contains(prompt.diff, "R")
    /\ HasSecret(file_state.text)
    /\ Contains(prompt.content, "R")

LimitStages == {"extract_changed_hunks", "truncate_diff", "truncate_content"}
RedactStages == {"redact_diff", "redact_content"}

\* C6: per file, redaction comes before the size limits, which come before
\* the prompt is built.
C6_RedactThenLimitThenPrompt ==
    \A i \in 1..Len(stages) :
        /\ stages[i] \in LimitStages =>
              \E j \in 1..(i - 1) : stages[j] \in RedactStages
        /\ stages[i] = "create_review_prompt" =>
              \A j \in 1..Len(stages) : stages[j] \in LimitStages => j < i

\* C7: never more than max_retries + 1 calls; when every attempt failed with
\* a retryable error, exactly max_retries + 1 calls and max_retries sleeps,
\* none after the last call, and the last error is raised.
AllCallsFailedRetryable ==
    /\ CallEvents # {}
    /\ \A i \in CallEvents :
          events[i].result.kind = "error" /\ _is_retryable_error(events[i].result.error)

C7_RetryBudget ==
    /\ Cardinality(CallEvents) <= max_retries + 1
    /\ rpc \in {"except", "returned"} /\ AllCallsFailedRetryable =>
          /\ Cardinality(CallEvents) = max_retries + 1
          /\ Cardinality(SleepEvents) = max_retries
          /\ LastEvent.ev = "call"
          /\ raised = LastEvent.result.error

C7_Witness ==
    /\ rpc = "returned"
    /\ max_retries = 2
    /\ AllCallsFailedRetryable
    /\ Cardinality(CallEvents) = 3
    /\ events[1].result.error # events[5].result.error

\* C8: an error classified as not retryable is re-raised at once, at
\* whichever attempt: no sleep and no call follow it, and it is the error
\* raised.
C8_NonRetryableRaisedAtOnce ==
    \A i \in ErrorCalls :
        ~_is_retryable_error(events[i].result.error) =>
            /\ i = Len(events)
            /\ rpc \in {"reraise", "except", "returned"}
            /\ rpc \in {"except", "returned"} => raised = events[i].result.error

C8_Witness ==
    /\ rpc = "returned"
    /\ Len(events) = 3
    /\ max_retries = 2
    /\ ~_is_retryable_error(events[3].result.error)
    /\ events[3].result.kind = "error"

\* C9: k retryable failures followed by a success: the call's text is
\* returned after exactly k + 1 calls and k sleeps, and no call follows.
C9_SuccessAfterRetries ==
    \A i \in CallEvents \ ErrorCalls :
        LET k == Cardinality({j \in ErrorCalls : j < i})
        IN  /\ i = Len(events)
            /\ Cardinality(CallEvents) = k + 1
            /\ Cardinality(SleepEvents) = k
            /\ \A j \in ErrorCalls : _is_retryable_error(events[j].result.error)
            /\ k <= max_retries
            /\ rpc \in {"response", "returned"}
            /\ events[i].result.kind = "content" /\ events[i].result.text # <<>>
                  => review_text = events[i].result.text

C9_Witness ==
    /\ rpc = "returned"
    /\ Len(events) = 5
    /\ events[5].result.kind = "content"
    /\ events[5].result.text = <<"P", "w">>
    /\ events[1].result.error # events[3].result.error
    /\ ret.passed

\* the request has been built from redacted_diff
RequestBuilt == prompt # NoPrompt

\* C21: whenever max_diff_bytes > 0, the diff text that review_file places
\* in the request sent to the API has at most max_diff_bytes bytes, after
\* hunk extraction, byte truncation and redaction have all been applied.
C21_SentDiffWithinBudget ==
    (RequestBuilt /\ max_diff_bytes > 0) =>
        ByteLen(prompt.diff) <= max_diff_bytes

\* the prompt of a diff-only call, computed from the arguments of
\* review_file and the template alone: the file does not occur in it
DiffOnlyPrompt ==
    create_review_prompt(custom_prompt,
                         redact(LimitDiff(arg_diff, max_diff_bytes), FALSE),
                         <<>>, TRUE)

\* C22: in diff-only mode the request does not depend on the file's
\* content.  review_file never reads the file, the default template has no
\* content section, {content} of a custom template resolves to the empty
\* text, and the prompt is the one determined by the diff, the budget and
\* the template, so two runs that differ only in the file send the same
\* prompt.
C22_DiffOnlyIgnoresContent ==
    diff_only =>
        /\ \A i \in 1..Len(stages) :
              stages[i] \notin {"get_file_content", "truncate_content"}
        /\ content = <<>>
        /\ redacted_content = <<>>
        /\ RequestBuilt =>
              /\ prompt.content = <<>>
              /\ prompt.diff_only_note = (custom_prompt.present => custom_prompt.uses_note)
              /\ prompt = DiffOnlyPrompt

\* a diff-only request built from a custom template that uses {content},
\* for a readable file that holds text
C22_Witness ==
    /\ diff_only
    /\ RequestBuilt
    /\ custom_prompt.present /\ custom_prompt.uses_content
    /\ file_state = File("text", <<"S", "x">>)
    /\ prompt.content = <<>>
    /\ prompt.diff # <<>>
    /\ CallEvents # {}

\* a call whose response has no choices, no message or empty content
IsEmptyResponse(o) ==
    \/ o.kind \in {"no_choices", "no_message"}
    \/ o.kind = "content" /\ o.text = <<>>

EmptyResponseCalls == {i \in CallEvents : IsEmptyResponse(events[i].result)}

\* C24: an API response with no choices, or whose first choice has no
\* message or empty content, makes _make_api_call_with_retry return the
\* fixed AI-REVIEW:[FAIL] Empty ... text without raising and without any
\* retry; review_file then reports passed = false with findings absent.
C24_EmptyResponseFailsWithoutRetry ==
    \A i \in EmptyResponseCalls :
        /\ i = Len(events)
        /\ rpc \in {"response", "returned"}
        /\ raised = NoError
        /\ review_text = IF events[i].result.kind = "no_choices"
                         THEN EmptyChoicesText ELSE EmptyContentText
        /\ Head(review_text) = "F"
        /\ rpc = "returned" => ret = Result(FALSE, review_text, NoText)

\* an empty content answered the call that followed a retried error, with
\* a retry still in hand
C24_Witness ==
    /\ rpc = "returned"
    /\ max_retries = 2
    /\ Len(events) = 3
    /\ events[1].result.kind = "error"
    /\ events[3].result = Outcome("content", <<>>, NoError)
    /\ ret = Result(FALSE, EmptyContentText, NoText)

\* a response without choices
C24_NoChoicesWitness ==
    /\ rpc = "returned"
    /\ Len(events) = 1
    /\ events[1].result.kind = "no_choices"
    /\ ret = Result(FALSE, EmptyChoicesText, NoText)

(***************************************************************************)
(* Properties of a run of main.                                            *)
(***************************************************************************)
\* C5: whatever the run wrote to the output file went through redact: no
\* secret pattern matches in the file, so redacting it again changes nothing.
C5_WrittenDiffRedacted ==
    written # NoText => ~HasSecret(written) /\ redact(written, FALSE) = written

\* the tuple task i of the pool ended with
OutcomeOfTask(i) ==
    IF tasks[i].raised THEN failed_tuple(args_files[i]) ELSE tasks[i].result

\* C10: the list of outcomes has one entry per reviewed file, in the order of
\* the input list; in a parallel run entry i is the outcome of task i, as in
\* the sequential run.
C10_OutcomesInInputOrder ==
    mpc = "output" =>
        /\ Len(all_reviews) = Len(args_files)
        /\ \A i \in 1..Len(all_reviews) :
              /\ all_reviews[i].filename = args_files[i]
              /\ tasks # <<>> =>
                    all_reviews[i].entry = review_log_entry(OutcomeOfTask(i), verbose)

\* how many tasks of the pool ended with the tuple t
TasksEndedWith(t) == Cardinality({i \in DOMAIN tasks : OutcomeOfTask(i) = t})

\* how many entries of the list of outcomes are the tuple t
OutcomesEqualTo(t) == Cardinality({k \in 1..Len(outcomes) : outcomes[k] = t})

\* C11: with jobs > 1 a task that raises gives a failed outcome for its own
\* file and nothing else: the pool is never abandoned, every task runs and is
\* collected, every sibling's own tuple is in the list of outcomes, and the
\* run ends with exit code 1.
C11_RaisingTaskFailsOnlyItsFile ==
    tasks # <<>> =>
        /\ mpc \in {"parallel", "process", "output", "exit"}
        /\ mpc = "parallel" => \E i \in DOMAIN tasks : tasks[i].state # "collected"
        /\ mpc # "parallel" => \A i \in DOMAIN tasks : tasks[i].state = "collected"
        /\ mpc \in {"output", "exit"} =>
              /\ Len(outcomes) = Len(tasks)
              /\ \A i \in DOMAIN tasks :
                    /\ TasksEndedWith(OutcomeOfTask(i)) = OutcomesEqualTo(OutcomeOfTask(i))
                    /\ tasks[i].raised =>
                          /\ ~OutcomeOfTask(i).passed
                          /\ args_files[i] \in Range(failed_files)
                    /\ ~tasks[i].raised /\ tasks[i].result.passed
                       /\ (\A j \in DOMAIN tasks :
                              args_files[j] = args_files[i] =>
                                  ~tasks[j].raised /\ tasks[j].result.passed)
                          => args_files[i] \notin Range(failed_files)
        /\ mpc = "exit" =>
              /\ exit_code \in {0, 1}
              /\ (\E i \in DOMAIN tasks : tasks[i].raised) => exit_code = 1

C11_Witness ==
    /\ mpc = "exit"
    /\ Len(tasks) = 3
    /\ tasks[2].raised
    /\ ~tasks[1].raised /\ tasks[1].result.passed
    /\ ~tasks[3].raised /\ tasks[3].result.passed
    /\ args_files = <<"a.py", "b.py", "a.py">>
    /\ failed_files = <<"b.py">>
    /\ exit_code = 1

\* C12: an error raised while one file is processed never aborts the run, in
\* sequential as in parallel mode: main is left by an exception only in the
\* setup phase, before any file was processed, and otherwise every reviewed
\* file gets its outcome.
C12_FileErrorNeverAbortsRun ==
    /\ mpc = "aborted" => \A f \in FileNames : fetched[f] = 0
    /\ mpc = "exit" /\ (\E f \in FileNames : fetched[f] > 0) =>
          Len(outcomes) = Len(args_files)

\* the setup phase of main went through: the credential is there and the
\* reviewer could be built
SetupSucceeded ==
    /\ api_key_set
    /\ ~(init_fails /\ filtered_files(argv_files, include_patterns, exclude_patterns) # <<>>)

\* C13: once setup has succeeded main returns 0 exactly when every outcome
\* has passed = true (also when no file is left to review) and 1 when some
\* outcome has passed = false.
C13_ExitCodeIffAllPassed ==
    mpc = "exit" /\ SetupSucceeded =>
        /\ exit_code \in {0, 1}
        /\ exit_code = 0 <=> \A k \in 1..Len(outcomes) : outcomes[k].passed
        /\ Len(outcomes) = Len(args_files)

C13_Witness ==
    /\ mpc = "exit"
    /\ SetupSucceeded
    /\ jobs = 2
    /\ Len(outcomes) = 3
    /\ outcomes[1].passed /\ outcomes[2].passed /\ ~outcomes[3].passed
    /\ exit_code = 1

NothingProcessed ==
    /\ \A f \in FileNames : fetched[f] = 0
    /\ tasks = <<>>
    /\ outcomes = <<>>
    /\ all_reviews = <<>>

\* the run ended in the setup phase with a non-zero exit code
EndedInSetup ==
    /\ mpc \in {"exit", "aborted"}
    /\ exit_code # 0 /\ exit_code # NoExit
    /\ NothingProcessed

\* C14 as stated: a missing credential or an unreadable prompts file ends the
\* run in the setup phase, non-zero, with nothing processed.
C14_SetupErrorEndsRun ==
    /\ ~api_key_set \/ prompts_file \in {"unreadable", "missing", "undecodable"}
    /\ argv_files # <<>>
    /\ mpc # "start"
    => EndedInSetup

\* C14 as amended: a missing credential (or a reviewer that cannot be built)
\* ends the run in the setup phase, non-zero, with nothing processed; a
\* prompts file that is missing, unreadable or not valid JSON does not: the
\* registry is empty and the files are reviewed.
C14_CredentialErrorEndsRun ==
    mpc # "start" =>
        /\ ~api_key_set => EndedInSetup /\ mpc = "exit" /\ exit_code = 1
        /\ api_key_set /\ init_fails
             /\ filtered_files(argv_files, include_patterns, exclude_patterns) # <<>>
             => EndedInSetup
        /\ api_key_set /\ ~init_fails /\ argv_files # <<>>
             /\ filtered_files(argv_files, include_patterns, exclude_patterns) # <<>>
             /\ prompts_file \in {"missing", "unreadable", "malformed", "not_dict"}
             => /\ filetype_prompts = "empty"
                /\ ~EndedInSetup
                /\ mpc = "exit" => \E f \in FileNames : fetched[f] > 0

C14_Witness ==
    /\ mpc = "exit"
    /\ api_key_set
    /\ prompts_file = "unreadable"
    /\ fetched["a.py"] = 1 /\ fetched["b.py"] = 1
    /\ exit_code = 0

\* C15: for an empty or whitespace-only diff review_file returns passed = true
\* with the no-changes message, and neither calls the API nor reads the file.
C15_BlankDiffPassesWithoutWork ==
    Strip(arg_diff) = <<>> /\ rpc # "idle" =>
        /\ rpc \in {"entry", "returned"}
        /\ events = <<>>
        /\ \A i \in 1..Len(stages) : stages[i] # "get_file_content"
        /\ content = <<>>
        /\ prompt = NoPrompt
        /\ rpc = "returned" =>
              /\ ret.passed
              /\ ret.review = NoChangesText
              /\ ret.findings = <<>>

C15_Witness ==
    /\ rpc = "returned"
    /\ arg_diff = <<"w", "n">>
    /\ ~diff_only
    /\ file_state.kind = "text" /\ file_state.text # <<>>
    /\ ret.passed
    /\ ret.review = NoChangesText

\* how often f occurs in the list s
Occurrences(f, s) == Cardinality({k \in 1..Len(s) : s[k] = f})

\* f is a candidate that main's should_review_file accepts
Accepted(f) ==
    /\ f \in Range(argv_files)
    /\ main_should_review_file(f, include_patterns, exclude_patterns)

\* no diff was fetched for f, no task exists for it and nothing records it
Untouched(f) ==
    /\ fetched[f] = 0
    /\ \A k \in 1..Len(outcomes) : outcomes[k].filename # f
    /\ \A k \in DOMAIN tasks : tasks[k].result.filename # f
    /\ \A k \in 1..Len(results) : results[k].filename # f
    /\ \A k \in 1..Len(all_reviews) : all_reviews[k].filename # f
    /\ \A k \in 1..Len(failed_files) : failed_files[k] # f

\* a diff was fetched and an outcome recorded once per accepted occurrence
ReviewedAsOftenAsAccepted(f) ==
    LET n == Occurrences(f, SelectSeq(argv_files, LAMBDA g : Accepted(g)))
    IN  /\ fetched[f] = n
        /\ Occurrences(f, [k \in 1..Len(outcomes) |-> outcomes[k].filename]) = n

NoFileAccepted == \A f \in FileNames : ~Accepted(f)

\* the part of C19 about the reviewed files: a rejected file is untouched
\* throughout the run, no file is fetched more often than it was accepted,
\* and a run that has gone through its review loop has fetched and judged
\* exactly the accepted files
OnlyAcceptedFilesReviewed ==
    \A f \in FileNames :
        /\ ~Accepted(f) => Untouched(f)
        /\ fetched[f] <= Occurrences(f, SelectSeq(argv_files, LAMBDA g : Accepted(g)))
        /\ mpc = "exit" /\ SetupSucceeded => ReviewedAsOftenAsAccepted(f)

C19_NoneAcceptedWitness ==
    /\ mpc = "exit"
    /\ argv_files = <<"p.lock">>
    /\ exclude_patterns = <<"*.lock">>
    /\ api_key_set
    /\ NoFileAccepted
    /\ NothingProcessed
    /\ exit_code = 0

(***************************************************************************)
(* Properties of get_file_diff.                                            *)
(***************************************************************************)
\* C16: get_file_diff returns the staged diff when there are staged changes,
\* the unstaged diff when there are only unstaged ones, and the empty text
\* when there are neither or git fails, times out or is missing; it never
\* raises.
C16_StagedElseUnstagedNeverRaises ==
    fn_called =>
        /\ fn_output.raised = None
        /\ fn_input.cached_call = "ok" /\ fn_input.staged # <<>> =>
              fn_output.value = fn_input.staged
        /\ fn_input.cached_call = "ok" /\ fn_input.staged = <<>>
              /\ fn_input.plain_call = "ok" /\ fn_input.unstaged # <<>> =>
              fn_output.value = fn_input.unstaged
        /\ fn_input.cached_call = "ok" /\ fn_input.staged = <<>>
              /\ fn_input.plain_call = "ok" /\ fn_input.unstaged = <<>> =>
              fn_output.value = <<>>
        /\ fn_input.cached_call # "ok" /\ fn_input.plain_call # "ok" =>
              fn_output.value = <<>>

(***************************************************************************)
(* Properties of should_review_file.                                       *)
(***************************************************************************)
ExcludeMatches ==
    \E i \in 1..Len(fn_input.exclude_patterns) :
        \/ GlobMatch(fn_input.filename, fn_input.exclude_patterns[i])
        \/ GlobMatch(PathName(fn_input.filename),
                     fn_input.exclude_patterns[i])

IncludeMatches ==
    \E i \in 1..Len(fn_input.include_patterns) :
        \/ GlobMatch(fn_input.filename, fn_input.include_patterns[i])
        \/ GlobMatch(PathName(fn_input.filename),
                     fn_input.include_patterns[i])

\* C17: exclude wins.  Whenever some pattern of the exclude list, a user's
\* or one of DEFAULT_EXCLUDE_PATTERNS, matches the full path or the
\* basename of the file, should_review_file returns false, whatever the
\* include list is and also when an include pattern matches the same file.
C17_ExcludeWins ==
    (fn_called /\ ExcludeMatches) => fn_output = FALSE

\* a.m.j is asked for by the include *.j and excluded by the default *.m.j.
C17_Witness ==
    /\ fn_called
    /\ fn_input.filename = <<"a", ".", "m", ".", "j">>
    /\ fn_input.include_patterns = << <<"*", ".", "j">> >>
    /\ fn_input.exclude_patterns = DEFAULT_EXCLUDE_PATTERNS
    /\ IncludeMatches
    /\ ExcludeMatches
    /\ fn_output = FALSE

\* C18: for a file that no exclude pattern matches, should_review_file
\* returns true when the include list is empty (so with both lists empty
\* it is true for every name, the empty name included), and otherwise it
\* returns true exactly when some include pattern matches the full path or
\* the basename.
C18_IncludeDecidesWhenNotExcluded ==
    (fn_called /\ ~ExcludeMatches) =>
        (fn_output = (fn_input.include_patterns = <<>> \/ IncludeMatches))

\* v/a.p is accepted through its basename alone: the include a.p does not
\* match the full path, and the exclude *.j matches nothing.
C18_Witness ==
    /\ fn_called
    /\ fn_input.filename = <<"v", "/", "a", ".", "p">>
    /\ fn_input.include_patterns = << <<"a", ".", "p">> >>
    /\ fn_input.exclude_patterns = << <<"*", ".", "j">> >>
    /\ ~GlobMatch(fn_input.filename, <<"a", ".", "p">>)
    /\ fn_output = TRUE

\* The empty name with both lists empty is accepted.
C18_EmptyNameWitness ==
    /\ fn_called
    /\ fn_input = FilterArgs(<<>>, <<>>, <<>>)
    /\ fn_output = TRUE

(***************************************************************************)
(* Properties of truncate_text_with_marker.                                *)
(***************************************************************************)
\* the text is longer than a positive budget
OverBudget ==
    /\ fn_input.max_bytes > 0
    /\ ByteLen(fn_input.text) > fn_input.max_bytes

\* a text within budget, or any text under a budget <= 0, comes back as is
ReturnedUnchangedWhenNotOver ==
    (fn_called /\ ~OverBudget) => fn_output = fn_input.text

\* the room left beside the marker holds no whole leading character
NoWholeCharacterFits ==
    /\ fn_input.text # <<>>
    /\ TokenBytes[Head(fn_input.text)] > fn_input.max_bytes - TokenBytes["M"]

IsPrefix(p, t) == Len(p) <= Len(t) /\ p = SubSeq(t, 1, Len(p))

C20_PlaceholderWitness ==
    /\ fn_called
    /\ fn_input.max_bytes = 1
    /\ OverBudget
    /\ fn_output = <<"T">>
    /\ ByteLen(fn_output) > fn_input.max_bytes

(***************************************************************************)
(* Properties of format_as_json.                                           *)
(***************************************************************************)
Parsed == json_loads(fn_output)

SameEntriesInOrder ==
    /\ Len(Parsed) = Len(fn_input)
    /\ \A i \in 1..Len(fn_input) :
          /\ Parsed[i].filename = fn_input[i].filename
          /\ Parsed[i].passed = fn_input[i].passed

\* C23 as stated: parsing the output of format_as_json gives back, entry by
\* entry and in the same order, exactly the filename, passed and findings
\* of each outcome, for every list of outcomes.
C23_JsonRoundTrip ==
    fn_called =>
        /\ SameEntriesInOrder
        /\ \A i \in 1..Len(fn_input) : Parsed[i].findings = fn_input[i].findings

\* C23 as amended: the entries come back in the same order with exactly
\* the filename and passed of each outcome; the findings come back exactly
\* when they are a list, and as the empty list when the outcome has
\* findings = None.
C23_JsonRoundTripUpToNone ==
    fn_called =>
        /\ SameEntriesInOrder
        /\ \A i \in 1..Len(fn_input) :
              Parsed[i].findings =
                  IF fn_input[i].findings = NoFindings THEN <<>>
                  ELSE fn_input[i].findings

\* two outcomes, the first failed with two findings, the second passed
\* with none
C23_Witness ==
    /\ fn_called
    /\ Len(fn_input) = 2
    /\ fn_input[1] = ReviewTuple("b.py", FALSE, <<"x">>, <<"f2", "f1">>)
    /\ fn_input[2] = ReviewTuple("a.py", TRUE, <<"x">>, <<>>)
    /\ Parsed = <<JsonEntry("b.py", FALSE, <<"f2", "f1">>),
                  JsonEntry("a.py", TRUE, <<>>)>>

(***************************************************************************)
(* Properties of _is_retryable_error.                                      *)
(***************************************************************************)
\* the error is a rate-limit, timeout, connection, internal-server or
\* unprocessable-entity error
OfRetryableType ==
    \/ IsInstance(fn_input, "RateLimitError")
    \/ IsInstance(fn_input, "APITimeoutError")
    \/ IsInstance(fn_input, "APIConnectionError")
    \/ IsInstance(fn_input, "InternalServerError")
    \/ IsInstance(fn_input, "UnprocessableEntityError")

\* C25: _is_retryable_error returns true for rate-limit, timeout,
\* connection, internal-server and unprocessable-entity errors; for any
\* other error it returns true exactly when the error exposes a
\* status_code in {429, 502, 503, 504, 520, 521, 522, 523, 524}; an error
\* of none of those types and with no status code is not retryable.
C25_RetryableClassification ==
    fn_called =>
        /\ OfRetryableType => fn_output = TRUE
        /\ ~OfRetryableType =>
              fn_output = (/\ fn_input.has_status
                           /\ fn_input.status_code \in
                                 {429, 502, 503, 504, 520, 521, 522, 523, 524})
        /\ ~OfRetryableType /\ ~fn_input.has_status => fn_output = FALSE

\* an error of no retryable type that carries the status 522
C25_Witness ==
    /\ fn_called
    /\ fn_input = Err("ValueError", TRUE, 522)
    /\ ~OfRetryableType
    /\ fn_output = TRUE

(***************************************************************************)
(* Properties of _calculate_retry_delay.                                   *)
(***************************************************************************)
\* min(initial_retry_delay * 2^a, max_retry_delay), in seconds
CappedBase ==
    IF fn_input.initial_retry_delay * Pow2(fn_input.attempt) <= fn_input.max_retry_delay
    THEN fn_input.initial_retry_delay * Pow2(fn_input.attempt)
    ELSE fn_input.max_retry_delay

\* C26: the delay slept after failed attempt number a is base + jitter with
\* base = min(initial_retry_delay * 2^a, max_retry_delay) and
\* 0 <= jitter <= retry_jitter * base: the jitter is added on top of the
\* capped value, so the delay lies between base and
\* base * (1 + retry_jitter) and equals base when retry_jitter = 0.
C26_DelayIsCappedBasePlusJitter ==
    fn_called =>
        LET base == CappedBase * DelayScale
            jitter == fn_output - base
        IN  /\ 0 <= jitter
            /\ jitter <= fn_input.retry_jitter * CappedBase * RandSteps
            /\ base <= fn_output
            /\ 100 * fn_output <= base * (100 + fn_input.retry_jitter)
            /\ fn_input.retry_jitter = 0 => fn_output = base
            /\ jitter = CappedBase * fn_input.retry_jitter * fn_input.random

\* attempt 3 with 3 s initial delay is capped at 10 s and the jitter of
\* 10 percent, drawn at 3/4, comes on top: 10.75 s
C26_Witness ==
    /\ fn_called
    /\ fn_input = DelayArgs(3, 10, 10, 3, 3)
    /\ CappedBase = 10
    /\ fn_output = 10 * DelayScale + 300
    /\ fn_output > fn_input.max_retry_delay * DelayScale

(***************************************************************************)
(* Properties of extract_changed_hunks.                                    *)
(***************************************************************************)
InputLines == Split(fn_input.diff, "n")

\* the lines that open a hunk
HunkStarts == {i \in 1..Len(InputLines) : StartsWithAny(InputLines[i], {"@"})}

IsHeaderLine(line) == StartsWithAny(line, {"d", "h"})

IsHunkBodyLine(line) == StartsWithAny(line, {"+", "-", "w", "h"})

NthHunkStart(k) ==
    CHOOSE i \in HunkStarts : Cardinality({j \in HunkStarts : j <= i}) = k

NthHunkEnd(k) ==
    IF k = Cardinality(HunkStarts) THEN Len(InputLines) ELSE NthHunkStart(k + 1) - 1

\* hunk k of the diff: its @@ line and the added, removed and context
\* lines up to the next hunk
NthHunk(k) ==
    <<InputLines[NthHunkStart(k)]>> \o
        SelectSeq(SubSeq(InputLines, NthHunkStart(k) + 1, NthHunkEnd(k)), IsHunkBodyLine)

\* the header lines before the first hunk
LeadingHeaders ==
    LET first == IF HunkStarts = {} THEN Len(InputLines) + 1 ELSE NthHunkStart(1)
    IN  SelectSeq(SubSeq(InputLines, 1, first - 1), IsHeaderLine)

KeptHunks == Min(Cardinality(HunkStarts), fn_input.max_hunks)

HeadersAndFirstHunks ==
    Flatten(LeadingHeaders \o [k \in 1..KeptHunks |-> Flatten(NthHunk(k), <<"n">>)],
            <<"n">>)

\* C27: extract_changed_hunks keeps the header lines that precede the first
\* hunk and at most max_hunks hunks, namely the first ones of the diff in
\* their original order; if the diff had more hunks than were kept, the
\* result ends with the truncation notice.
C27_FirstHunksKeptInOrder ==
    (fn_called /\ Strip(fn_input.diff) # <<>>) =>
        /\ fn_output \in {HeadersAndFirstHunks, HeadersAndFirstHunks \o <<"N">>}
        /\ KeptHunks <= fn_input.max_hunks
        /\ Cardinality(HunkStarts) > KeptHunks =>
              fn_output = HeadersAndFirstHunks \o <<"N">>

\* a file header and three hunks under max_hunks = 2: the header and the
\* first two hunks are kept and the notice follows
C27_Witness ==
    /\ fn_called
    /\ fn_input = HunkArgs(<<"d", "x", "n", "@", "x", "n", "@", "x", "n", "@", "x">>, 2)
    /\ Cardinality(HunkStarts) = 3
    /\ fn_output = <<"d", "x", "n", "@", "x", "n", "@", "x", "N">>

(***************************************************************************)
(* Properties of _parse_review_text.                                       *)
(***************************************************************************)
JsonBlocks == {i \in 1..Len(fn_input) : fn_input[i] \in {"J", "j", "V"}}

\* the first fenced json block holds an object with a list of findings
FirstBlockHasFindings ==
    /\ JsonBlocks # {}
    /\ \E i \in JsonBlocks : fn_input[i] = "J" /\ \A k \in JsonBlocks : i <= k

\* C28: _parse_review_text never raises.  When the first fenced json block
\* parses to an object whose findings value is a list, it returns that
\* list and the text with the block removed; in every other case (no
\* block, malformed JSON, wrong top-level shape) it returns the text
\* unmodified and findings = None.
C28_ParseNeverRaises ==
    fn_called =>
        /\ fn_output.raised = None
        /\ FirstBlockHasFindings =>
              /\ fn_output.findings = BlockFindings
              /\ \A i \in 1..Len(fn_output.human_text) : fn_output.human_text[i] # "J"
        /\ ~FirstBlockHasFindings =>
              /\ fn_output.human_text = fn_input
              /\ fn_output.findings = NoText

(***************************************************************************)
(* Properties of select_prompt_template.                                   *)
(***************************************************************************)
Keys == Range(fn_input.registry)

\* the patterns that are no exact key of this file and match its full
\* path or its basename
MatchingPatterns ==
    {p \in Keys :
        /\ p # fn_input.filename
        /\ p # PathName(fn_input.filename)
        /\ \/ GlobMatch(fn_input.filename, p)
           \/ GlobMatch(PathName(fn_input.filename), p)}

IndexOfKey(p) == CHOOSE i \in 1..Len(fn_input.registry) : fn_input.registry[i] = p

\* the longest matching pattern, the earliest of the registry among
\* equally long ones
MostSpecificMatch ==
    CHOOSE p \in MatchingPatterns :
        \A q \in MatchingPatterns :
            \/ Len(q) < Len(p)
            \/ Len(q) = Len(p) /\ IndexOfKey(p) <= IndexOfKey(q)

C29_BasenameKeyWitness ==
    /\ fn_called
    /\ fn_input.filename = <<"v", "/", "a", ".", "p">>
    /\ fn_input.registry = << <<"v", "/", "*", "*">>, <<"a", ".", "p">> >>
    /\ fn_output = TemplateOf(<<"a", ".", "p">>)

(***************************************************************************)
(* AIReviewer.create_review_prompt on its own (reviewer.py 139-246): every *)
(* custom template, with diffs and contents that do and do not hold the    *)
(* literals the two tests of lines 160 and 165 look for.                   *)
(***************************************************************************)
CustomTemplates ==
    {Template(ud, uc, un, v, j, wf) :
        ud \in BOOLEAN, uc \in BOOLEAN, un \in BOOLEAN,
        v \in BOOLEAN, j \in BOOLEAN, wf \in BOOLEAN}

\* a change of one line: plain, printing the marker, opening a json fence
PromptDiffs == {<<>>, <<"+", "x">>, <<"+", "x", "a", "x">>, <<"+", "k">>}

\* file contents: empty, plain, a document quoting both literals, and the
\* placeholder of an unreadable file
PromptContents == {<<>>, <<"x">>, <<"x", "a", "n", "k">>, <<"B">>}

PromptArgs(template, d, c, only) ==
    [custom_prompt |-> template, diff |-> d, content |-> c, diff_only |-> only]

Call_create_review_prompt ==
    /\ ~fn_called
    /\ fn_called' = TRUE
    /\ fn_output' = create_review_prompt(fn_input.custom_prompt, fn_input.diff,
                                         fn_input.content, fn_input.diff_only)
    /\ UNCHANGED <<fn_input, review_vars, main_vars>>

InitPrompt ==
    /\ fn_input \in {PromptArgs(t, d, c, o) :
                        t \in CustomTemplates \cup {NoTemplate},
                        d \in PromptDiffs, c \in PromptContents, o \in BOOLEAN}
    /\ fn_called = FALSE
    /\ fn_output = NoPrompt
    /\ ReviewIdle
    /\ MainIdle

NextPrompt == Call_create_review_prompt

SpecPrompt == InitPrompt /\ [][NextPrompt]_vars

(***************************************************************************)
(* Properties of create_review_prompt.                                     *)
(***************************************************************************)
\* a custom template was selected and str.format accepted it
CustomPromptBuilt ==
    /\ fn_called
    /\ fn_input.custom_prompt.present
    /\ fn_output.raised = None

\* C30: for every custom template without the AI-REVIEW:[PASS|FAIL]
\* instruction the built prompt has the instruction prepended, and for
\* every custom template without a json code-fence instruction the
\* structured-findings instructions are appended, whatever diff and
\* content are substituted into the template.
C30_MissingInstructionsAdded ==
    CustomPromptBuilt =>
        /\ ~fn_input.custom_prompt.has_verdict_instruction
              => fn_output.verdict_instruction_prepended
        /\ ~fn_input.custom_prompt.has_json_instruction
              => fn_output.findings_instruction_appended

====
